---------------------------- MODULE Spec2Model ----------------------------
(***************************************************************************)
(* Verification model of the BA_Tools pyRevit scripts.                     *)
(*                                                                         *)
(* Every pushbutton script is an independent program, so the module holds  *)
(* one state machine per script, each with its own variables and its own   *)
(* specification; a specification leaves the variables of the other        *)
(* scripts at their initial value.                                         *)
(*                                                                         *)
(*   SpecWorkset   Workset.panel/Worksets.pushbutton/script.py             *)
(*   SpecRev       Revision.panel/Set Revision On Sheets.pushbutton        *)
(*   SpecTransfer  Views.panel/Transfer Filter.pushbutton                  *)
(*   SpecSplit     Create.panel/Create Walls and Create Slab pushbuttons   *)
(*   SpecSort      Automation.tab Comments Value.pushbutton/script.py      *)
(*   SpecGrid      Annotate.panel/Grid Dimension.pushbutton                *)
(*   SpecRot       Assembly.panel/Origin.pushbutton                        *)
(*   SpecComments  Parameter Value.panel Comments Value.pushbutton         *)
(*   SpecTitleBlock  Title Block.pushbutton (both tabs)                    *)
(*   SpecAcquire   Project Location.panel/Coordinates.pushbutton           *)
(*                                                                         *)
(* The Revit host is the environment: a host-API call that can raise is a  *)
(* nondeterministic choice between its normal outcome and an exception.    *)
(***************************************************************************)
EXTENDS Integers, Sequences, FiniteSets, TLC

VARIABLES
    \* ---- Worksets.pushbutton/script.py (WorksetForm and the RUN block)
    ws_pc,            \* position of the script: dialog, transaction, ...
    listbox_checked,  \* indices of the checked items of self.listbox
    form_selected,    \* form.selected
    ws_i,             \* number of items the for loop has finished
    ws_created,       \* worksets created by Workset.Create in the transaction
    ws_txn,           \* the revit.Transaction: none, open, committed, rolledback
    ws_output,        \* lines printed by output.print_md
    \* ---- Set Revision On Sheets.pushbutton/script.py (RevisionManager)
    rm_pc,                 \* idle (form waits for an event), confirm, transaction, complete, closed
    unissued_radio,        \* unissued_radio.Checked
    revision_list,         \* revision_list.Items, as the revisions they display
    revision_checked,      \* checked indices of revision_list
    sheet_filter_textbox,  \* sheet_filter_textbox.Text
    sheet_list,            \* sheet_list.Items, as the sheets they display
    sheet_checked,         \* checked indices of sheet_list
    rm_op,                 \* the handler that is running: apply or remove
    selected_revisions,    \* self.selected_revisions
    selected_sheets,       \* self.selected_sheets
    rm_i,                  \* number of sheets the transaction loop has finished
    sheetRevs,             \* document: sheet -> its additional revision ids
    rm_before,             \* sheetRevs when the running handler was clicked
    rm_written,            \* sheets SetAdditionalRevisionIds was called on by the handler
    rm_txn,                \* the revit.Transaction: none, open, committed
    success_count,
    error_count,
    skipped_count,
    status_text,           \* the log lines AddLog wrote, as <<sheet, mark>>
    rm_result,             \* self.result
    rm_runs,               \* clicks on APPLY/REMOVE that passed validation so far
    \* ---- Transfer Filter.pushbutton/TransferFilters_script.py (TransferFiltersWindow)
    tf_pc,                 \* dialog, confirm, remove, copy, assimilate, done, closed
    doc_from,              \* self.doc_from (a project, or NoDoc)
    doc_to,                \* self.doc_to
    all_filters,           \* self.all_filters, as the names of the FilterItems
    all_filters_doc,       \* the document the FilterItems of all_filters were loaded from
    IsSelected,            \* the FilterItems whose IsSelected is True
    txtSearch,             \* txtSearch.Text
    ItemsSource,           \* lstFilters.ItemsSource
    txtFilterCount,        \* the number txtFilterCount shows
    txtSelectedCount,      \* the number txtSelectedCount shows
    txtStatus,             \* txtStatus.Text
    chkOverride,           \* chkOverride.IsChecked
    btnTransfer_IsEnabled, \* btnTransfer.IsEnabled
    dispatcher_queue,      \* UpdateSelectedCount callbacks queued by BeginInvoke
    docFilters,            \* project -> the ParameterFilterElements of the document
    selected_filters,      \* selected_filters of TransferFilters
    tf_before,             \* the filters of doc_to when the transaction group started
    tf_group,              \* the TransactionGroup: none, started, assimilated, rolledback
    removed_count,
    transferred,
    updated,
    failed,
    tf_dialog,             \* the TaskDialog that ends the run: Complete or Failed
    \* ---- WallFromLine_script.py / SlabFromLine_script.py (splitting)
    sp_pc,                 \* create, loop, splitting, summary, done
    sp_script,             \* the script that runs: wall or slab
    selection,             \* the picked lines, in pick order: [length, kind]
    split_enabled,
    interval_ft,
    joint_gap_ft,
    created_walls_map,     \* the lines an element was created for
    sp_failed,             \* failed
    split_positions,
    sp_line,               \* number of lines the split loop has finished
    cumulative_length,
    splits_in_this_segment,
    sp_idx,                \* number of split positions of the element handled
    prev_distance,
    sub_walls,             \* sub_walls / sub_slabs of the element being split
    all_new_walls,         \* all_new_walls / all_new_slabs
    total_walls,
    \* ---- Automation.tab Comments Value.pushbutton/script.py (sort and numbering)
    mk_pc,                 \* collected, writing, done
    marked_elements,       \* the Mark texts of marked_elements, in list order
    mk_i,                  \* number of elements the write loop has finished
    count,
    mk_updated,            \* updated
    mk_comments,           \* per finished element the comment written, <<>> for none
    mk_txn,                \* the revit.Transaction: none, open, committed
    \* ---- GridAnnotation_script.py (classify_grids_for_view)
    gr_pc,                 \* loop, returned
    grids,                 \* the grids passed in, as their curves
    gr_i,                  \* number of grids the loop has finished
    vertical_grids,        \* the three lists, as positions in grids
    horizontal_grids,
    inclined_grids,
    \* ---- RotateAssemblies_script.py (CalculateRotationAngle)
    rot_pc,                \* called, normalize, returned
    rbAuto,                \* rbAuto.IsChecked
    ErectionMarkElement,   \* assembly_data.ErectionMarkElement is set
    mark_x,                \* mark_x_2d
    assembly_x,            \* assembly_x_2d
    txtAngle,              \* txtAngle.Text
    angle_deg,
    rot_result,            \* the value returned
    \* ---- Parameter Value.panel Comments Value.pushbutton/SetCommentValues_script.py
    cv_pc,                 \* dialog, confirm, transaction, closed
    filtered_elements,     \* self.filtered_elements, as the Mark text of each element
    cmbMethod,             \* cmbMethod.SelectedItem
    txtCSV,                \* txtCSV.Text
    txtMarkPrefix,         \* txtMarkPrefix.Text
    new_comments,          \* new_comments of OnApplyComments
    cv_alert,              \* the last forms.alert shown
    cv_i,                  \* number of elements the transaction loop has finished
    Comments,              \* document: per element, whether Comments was set and to what
    cv_txn,                \* the revit.Transaction: none, open, committed
    success,
    errors,
    cv_result,             \* self.result
    \* ---- Title Block.pushbutton scripts (Automation.tab script.py, BA_Tools.tab
    \*      script.py and TitleBlockUpdate_script.py)
    tb_pc,                 \* dialog, confirm, transaction, complete, closed
    tb_script,             \* which script runs: "Automation" or "BA_Tools"
    tb_fields,             \* the Text of the parameter text boxes, by parameter name
    tb_date_picked,        \* the user picked a date in the date picker
    tb_selected,           \* the sheets selected (checked) in the sheet list
    tb_alert,              \* the forms.alert that is up, "none" once dismissed
    tb_params,             \* the keys of params (params_to_update)
    tb_i,                  \* number of sheets the transaction loop has finished
    tb_written,            \* sheets on which a parameter was Set
    tb_txn,                \* the transaction: none, open, committed
    tb_success,            \* success_count
    tb_errors,             \* error_count
    tb_result,             \* self.result
    \* ---- Coordinates.pushbutton/AcquireCoordinates_script.py (AcquireCoordinatesWindow)
    ac_pc,                 \* dialog, confirm, survey, base, report, done
    linked_models,         \* self.linked_models: which locations each link has
    SelectedIndex,         \* lstLinkedModels.SelectedIndex
    host_sp,               \* the host Survey Point: exists, writable coordinates
    host_pbp,              \* the host Project Base Point
    sp_moved,              \* coordinates of the Survey Point set to the link's
    pbp_moved,             \* coordinates of the Project Base Point set to the link's
    ac_success,            \* success of OnAcquire
    ac_alert,              \* the last forms.alert shown
    ac_txn,                \* the revit.Transaction: none, open, committed
    ac_result              \* self.result

wsVars == <<ws_pc, listbox_checked, form_selected, ws_i, ws_created, ws_txn, ws_output>>

rmDialogVars == <<unissued_radio, revision_list, revision_checked, sheet_filter_textbox,
                  sheet_list, sheet_checked>>
rmRunVars == <<rm_op, selected_revisions, selected_sheets, rm_i, sheetRevs, rm_before,
               rm_written, rm_txn, success_count, error_count, skipped_count, status_text,
               rm_result, rm_runs>>
rmVars == <<rm_pc, rmDialogVars, rmRunVars>>

tfDialogVars == <<doc_from, doc_to, all_filters, all_filters_doc, IsSelected, txtSearch,
                  ItemsSource, txtFilterCount, txtSelectedCount, txtStatus, chkOverride,
                  btnTransfer_IsEnabled, dispatcher_queue>>
tfRunVars == <<docFilters, selected_filters, tf_before, tf_group, removed_count,
               transferred, updated, failed, tf_dialog>>
tfVars == <<tf_pc, tfDialogVars, tfRunVars>>

spVars == <<sp_pc, sp_script, selection, split_enabled, interval_ft, joint_gap_ft,
            created_walls_map, sp_failed, split_positions, sp_line, cumulative_length,
            splits_in_this_segment, sp_idx, prev_distance, sub_walls, all_new_walls,
            total_walls>>

mkVars == <<mk_pc, marked_elements, mk_i, count, mk_updated, mk_comments, mk_txn>>

grVars == <<gr_pc, grids, gr_i, vertical_grids, horizontal_grids, inclined_grids>>

rotVars == <<rot_pc, rbAuto, ErectionMarkElement, mark_x, assembly_x, txtAngle, angle_deg,
             rot_result>>

cvVars == <<cv_pc, filtered_elements, cmbMethod, txtCSV, txtMarkPrefix, new_comments,
            cv_alert, cv_i, Comments, cv_txn, success, errors, cv_result>>

tbVars == <<tb_pc, tb_script, tb_fields, tb_date_picked, tb_selected, tb_alert, tb_params,
            tb_i, tb_written, tb_txn, tb_success, tb_errors, tb_result>>

acVars == <<ac_pc, linked_models, SelectedIndex, host_sp, host_pbp, sp_moved, pbp_moved,
            ac_success, ac_alert, ac_txn, ac_result>>

vars == <<wsVars, rmVars, tfVars, spVars, mkVars, grVars, rotVars, cvVars, tbVars, acVars>>

\* The variables of the scripts other than the one named.
notWs == <<rmVars, tfVars, spVars, mkVars, grVars, rotVars, cvVars, tbVars, acVars>>
notRm == <<wsVars, tfVars, spVars, mkVars, grVars, rotVars, cvVars, tbVars, acVars>>
notTf == <<wsVars, rmVars, spVars, mkVars, grVars, rotVars, cvVars, tbVars, acVars>>
notSp == <<wsVars, rmVars, tfVars, mkVars, grVars, rotVars, cvVars, tbVars, acVars>>
notMk == <<wsVars, rmVars, tfVars, spVars, grVars, rotVars, cvVars, tbVars, acVars>>
notGr == <<wsVars, rmVars, tfVars, spVars, mkVars, rotVars, cvVars, tbVars, acVars>>
notRot == <<wsVars, rmVars, tfVars, spVars, mkVars, grVars, cvVars, tbVars, acVars>>
notCv == <<wsVars, rmVars, tfVars, spVars, mkVars, grVars, rotVars, tbVars, acVars>>
notTb == <<wsVars, rmVars, tfVars, spVars, mkVars, grVars, rotVars, cvVars, acVars>>
notAc == <<wsVars, rmVars, tfVars, spVars, mkVars, grVars, rotVars, cvVars, tbVars>>

(***************************************************************************)
(* General helpers                                                         *)
(***************************************************************************)
None == "None"

Range(s) == {s[i] : i \in 1..Len(s)}

\* The subsequence of s at the (ascending) indices in the set idx.
RECURSIVE PickIndices(_, _, _)
PickIndices(s, idx, k) ==
    IF k > Len(s) THEN <<>>
    ELSE IF k \in idx THEN <<s[k]>> \o PickIndices(s, idx, k + 1)
    ELSE PickIndices(s, idx, k + 1)

(***************************************************************************)
(* Worksets.pushbutton/script.py                                           *)
(***************************************************************************)
\* Number of entries of `available` (master-list names not yet in the document).
NumAvailable == 4

available == [i \in 1..NumAvailable |-> i]

\* The script is not the one that runs.
WsOff ==
    /\ ws_pc = "off"
    /\ listbox_checked = {}
    /\ form_selected = <<>>
    /\ ws_i = 0
    /\ ws_created = <<>>
    /\ ws_txn = "none"
    /\ ws_output = <<>>

WsInit ==
    /\ ws_pc = "dialog"
    /\ listbox_checked = {}
    /\ form_selected = <<>>
    /\ ws_i = 0
    /\ ws_created = <<>>
    /\ ws_txn = "none"
    /\ ws_output = <<>>

\* The user clicks one item of the CheckedListBox.
WorksetForm_ItemClick ==
    /\ ws_pc = "dialog"
    /\ \E i \in 1..NumAvailable :
          listbox_checked' = IF i \in listbox_checked
                             THEN listbox_checked \ {i}
                             ELSE listbox_checked \cup {i}
    /\ UNCHANGED <<ws_pc, form_selected, ws_i, ws_created, ws_txn, ws_output>>
    /\ UNCHANGED notWs

WorksetForm_SelectAll ==
    /\ ws_pc = "dialog"
    /\ listbox_checked' = 1..NumAvailable
    /\ UNCHANGED <<ws_pc, form_selected, ws_i, ws_created, ws_txn, ws_output>>
    /\ UNCHANGED notWs

WorksetForm_ClearAll ==
    /\ ws_pc = "dialog"
    /\ listbox_checked' = {}
    /\ UNCHANGED <<ws_pc, form_selected, ws_i, ws_created, ws_txn, ws_output>>
    /\ UNCHANGED notWs

\* Create button: selected = the checked items, DialogResult = OK, Close();
\* ShowDialog returns OK and the RUN block opens the transaction.
WorksetForm_Create ==
    /\ ws_pc = "dialog"
    /\ form_selected' = PickIndices(available, listbox_checked, 1)
    /\ ws_pc' = "transaction"
    /\ ws_txn' = "open"
    /\ UNCHANGED <<listbox_checked, ws_i, ws_created, ws_output>>
    /\ UNCHANGED notWs

\* The form is closed with the window's close box: ShowDialog does not return OK.
WorksetForm_Cancel ==
    /\ ws_pc = "dialog"
    /\ ws_pc' = "ended"
    /\ UNCHANGED <<listbox_checked, form_selected, ws_i, ws_created, ws_txn, ws_output>>
    /\ UNCHANGED notWs

\* One iteration of `for w in form.selected: Workset.Create(doc, w)`, the call
\* returning normally.
Ws_CreateItem ==
    /\ ws_pc = "transaction"
    /\ ws_i < Len(form_selected)
    /\ ws_created' = Append(ws_created, form_selected[ws_i + 1])
    /\ ws_i' = ws_i + 1
    /\ UNCHANGED <<ws_pc, listbox_checked, form_selected, ws_txn, ws_output>>
    /\ UNCHANGED notWs

\* Workset.Create raises: nothing catches it inside the loop, so the exception
\* leaves the with block (the transaction rolls back) and ends the script.
Ws_CreateItemRaises ==
    /\ ws_pc = "transaction"
    /\ ws_i < Len(form_selected)
    /\ ws_txn' = "rolledback"
    /\ ws_created' = <<>>
    /\ ws_pc' = "ended"
    /\ UNCHANGED <<listbox_checked, form_selected, ws_i, ws_output>>
    /\ UNCHANGED notWs

\* The loop is over: the with block commits and the summary is printed.
Ws_Summary ==
    /\ ws_pc = "transaction"
    /\ ws_i = Len(form_selected)
    /\ ws_txn' = "committed"
    /\ ws_output' = <<"Created Worksets">> \o form_selected
    /\ ws_pc' = "ended"
    /\ UNCHANGED <<listbox_checked, form_selected, ws_i, ws_created>>
    /\ UNCHANGED notWs

WsNext ==
    \/ WorksetForm_ItemClick
    \/ WorksetForm_SelectAll
    \/ WorksetForm_ClearAll
    \/ WorksetForm_Create
    \/ WorksetForm_Cancel
    \/ Ws_CreateItem
    \/ Ws_CreateItemRaises
    \/ Ws_Summary

(***************************************************************************)
(* Set Revision On Sheets.pushbutton/script.py: RevisionManager            *)
(*                                                                         *)
(* Text is a sequence of one-character strings.  The status box is         *)
(* modelled as the log of the running handler (AddLog).  The two count     *)
(* labels and the preview text, which timer ticks write and no handler     *)
(* reads, are left out of this state machine.                              *)
(***************************************************************************)
\* Number of revisions and of sheets in the document.
NumRevisions == 2
NumSheets == 2

\* all_revisions, sorted by SequenceNumber: a revision is named by its number.
Revisions == 1..NumRevisions
revisions == [i \in 1..NumRevisions |-> i]
\* rev.Issued: the odd revisions of the model document are issued.
Issued(r) == r % 2 = 1

\* all_sheets, sorted by SheetNumber: a sheet is named by its position.
Sheets == 1..NumSheets
sheets == [i \in 1..NumSheets |-> i]
\* "{SheetNumber} - {Name}" of a sheet: A1, B2, A3, ...
SheetDisplayText(s) == <<(IF s % 2 = 1 THEN "A" ELSE "B"), (IF s % 3 = 1 THEN "1" ELSE "2")>>
\* What the user can type into the filter box.
FilterTexts == {<<>>, <<"B">>}

\* str.lower() on the characters in use.
LowerChar(c) ==
    CASE c = "A" -> "a" [] c = "B" -> "b" [] c = "F" -> "f" [] c = "I" -> "i"
      [] c = "P" -> "p" [] OTHER -> c
Lower(t) == [i \in 1..Len(t) |-> LowerChar(t[i])]

\* Python's `f in t` on strings.
IsSubstring(f, t) ==
    \E k \in 0..(Len(t) - Len(f)) : \A j \in 1..Len(f) : t[k + j] = f[j]

\* `not filter_text or filter_text in display_text.lower()`
SheetMatchesFilter(text, s) ==
    LET filter_text == Lower(text)
    IN  filter_text = <<>> \/ IsSubstring(filter_text, Lower(SheetDisplayText(s)))

\* The sheets the list shows for a filter text.
FilteredSheets(text) ==
    LET keep(s) == SheetMatchesFilter(text, s) IN SelectSeq(sheets, keep)

\* `[r for r in self.revisions if not self.unissued_radio.Checked or not r.Issued]`
DisplayRevisions(unissuedOnly) ==
    LET keep(r) == ~unissuedOnly \/ ~Issued(r) IN SelectSeq(revisions, keep)

\* The revision lists a sheet of the document may carry when the script starts.
InitialRevLists == {<<>>, <<1>>, <<2, 1>>}

RmOff ==
    /\ rm_pc = "off"
    /\ unissued_radio = FALSE
    /\ revision_list = <<>>
    /\ revision_checked = {}
    /\ sheet_filter_textbox = <<>>
    /\ sheet_list = <<>>
    /\ sheet_checked = {}
    /\ rm_op = None
    /\ selected_revisions = <<>>
    /\ selected_sheets = <<>>
    /\ rm_i = 0
    /\ sheetRevs = <<>>
    /\ rm_before = <<>>
    /\ rm_written = {}
    /\ rm_txn = "none"
    /\ success_count = 0
    /\ error_count = 0
    /\ skipped_count = 0
    /\ status_text = <<>>
    /\ rm_result = None
    /\ rm_runs = 0

\* RevisionManager.__init__ and InitializeUI: "All" is checked, both lists are
\* populated unfiltered, nothing is checked, both labels show 0.
RmInit ==
    /\ rm_pc = "idle"
    /\ unissued_radio = FALSE
    /\ revision_list = DisplayRevisions(FALSE)
    /\ revision_checked = {}
    /\ sheet_filter_textbox = <<>>
    /\ sheet_list = sheets
    /\ sheet_checked = {}
    /\ rm_op = None
    /\ selected_revisions = <<>>
    /\ selected_sheets = <<>>
    /\ rm_i = 0
    /\ sheetRevs \in [Sheets -> InitialRevLists]
    /\ rm_before = sheetRevs
    /\ rm_written = {}
    /\ rm_txn = "none"
    /\ success_count = 0
    /\ error_count = 0
    /\ skipped_count = 0
    /\ status_text = <<>>
    /\ rm_result = None
    /\ rm_runs = 0

\* ---- events of the two CheckedListBoxes ---------------------------------
\* The user clicks item i of revision_list: its check state flips.
RevisionItemCheck ==
    /\ rm_pc = "idle"
    /\ \E i \in 1..Len(revision_list) :
          revision_checked' = IF i \in revision_checked
                              THEN revision_checked \ {i}
                              ELSE revision_checked \cup {i}
    /\ UNCHANGED <<rm_pc, unissued_radio, revision_list, sheet_filter_textbox, sheet_list,
                   sheet_checked, rmRunVars>>
    /\ UNCHANGED notRm

\* The user clicks item i of sheet_list.
SheetItemCheck ==
    /\ rm_pc = "idle"
    /\ \E i \in 1..Len(sheet_list) :
          sheet_checked' = IF i \in sheet_checked
                           THEN sheet_checked \ {i}
                           ELSE sheet_checked \cup {i}
    /\ UNCHANGED <<rm_pc, unissued_radio, revision_list, revision_checked,
                   sheet_filter_textbox, sheet_list, rmRunVars>>
    /\ UNCHANGED notRm

\* SetItemChecked(i, True) on every item of revision_list.
SelectAllRevisions ==
    /\ rm_pc = "idle"
    /\ revision_checked' = 1..Len(revision_list)
    /\ UNCHANGED <<rm_pc, unissued_radio, revision_list, sheet_filter_textbox,
                   sheet_list, sheet_checked, rmRunVars>>
    /\ UNCHANGED notRm

ClearAllRevisions ==
    /\ rm_pc = "idle"
    /\ revision_checked' = {}
    /\ UNCHANGED <<rm_pc, unissued_radio, revision_list, sheet_filter_textbox,
                   sheet_list, sheet_checked, rmRunVars>>
    /\ UNCHANGED notRm

\* SelectAllSheets and SelectFiltered have the same body.
SelectAllSheets ==
    /\ rm_pc = "idle"
    /\ sheet_checked' = 1..Len(sheet_list)
    /\ UNCHANGED <<rm_pc, unissued_radio, revision_list, revision_checked,
                   sheet_filter_textbox, sheet_list, rmRunVars>>
    /\ UNCHANGED notRm

ClearAllSheets ==
    /\ rm_pc = "idle"
    /\ sheet_checked' = {}
    /\ UNCHANGED <<rm_pc, unissued_radio, revision_list, revision_checked,
                   sheet_filter_textbox, sheet_list, rmRunVars>>
    /\ UNCHANGED notRm

\* A radio button is clicked: PopulateRevisionList clears and refills the list
\* (no item stays checked).
OnRevisionFilterChanged ==
    /\ rm_pc = "idle"
    /\ unissued_radio' = ~unissued_radio
    /\ revision_list' = DisplayRevisions(unissued_radio')
    /\ revision_checked' = {}
    /\ UNCHANGED <<rm_pc, sheet_filter_textbox, sheet_list, sheet_checked,
                   rmRunVars>>
    /\ UNCHANGED notRm

\* The filter text changes: the sheet list is cleared and refilled (no item
\* stays checked).
OnSheetFilterChanged ==
    /\ rm_pc = "idle"
    /\ \E text \in FilterTexts :
          /\ text # sheet_filter_textbox
          /\ sheet_filter_textbox' = text
          /\ sheet_list' = FilteredSheets(text)
    /\ sheet_checked' = {}
    /\ UNCHANGED <<rm_pc, unissued_radio, revision_list, revision_checked,
                   rmRunVars>>
    /\ UNCHANGED notRm

\* ---- APPLY REVISIONS and REMOVE REVISIONS ---------------------------------
\* Most clicks on the two buttons that pass validation in one session.
MaxRuns == 1

\* The two validation checks at the head of both handlers.
ValidationPassed_RevisionsOnly == revision_checked # {}
ValidationPassed == revision_checked # {} /\ sheet_checked # {}

\* "Map indices to actual objects": CheckedIndices are ascending.
MapSelectedRevisions ==
    PickIndices(DisplayRevisions(unissued_radio), revision_checked, 1)
MapSelectedSheets ==
    PickIndices(FilteredSheets(sheet_filter_textbox), sheet_checked, 1)

\* The loop of ApplyRevisions without its `if rev.Id not in rev_ids`.
AddNewRevisions_Always(rev_ids, selected) == rev_ids \o selected

\* ApplyRevisions: `for rev in selected: if rev.Id not in rev_ids: rev_ids.append(rev.Id)`
RECURSIVE AddNewRevisions(_, _)
AddNewRevisions(rev_ids, selected) ==
    IF selected = <<>> THEN rev_ids
    ELSE AddNewRevisions(
             IF Head(selected) \in Range(rev_ids) THEN rev_ids
             ELSE Append(rev_ids, Head(selected)),
             Tail(selected))

\* RemoveRevisions: `[rid for rid in rev_ids if rid not in revisions_to_remove]`
RemoveSelected_KeepsSelected(rev_ids, revisions_to_remove) ==
    LET keep(rid) == rid \in Range(revisions_to_remove) IN SelectSeq(rev_ids, keep)
RemoveSelected(rev_ids, revisions_to_remove) ==
    LET keep(rid) == rid \notin Range(revisions_to_remove) IN SelectSeq(rev_ids, keep)

\* `if removed_count == 0` of RemoveRevisions: the sheet is only logged.
NothingToRemove(original, remaining) == Len(original) - Len(remaining) = 0

\* A button is clicked and validation fails: forms.alert("Please select ...")
\* is shown and the handler returns when it is dismissed, nothing changed.
RmValidationError ==
    /\ rm_pc = "idle"
    /\ ~ValidationPassed
    /\ UNCHANGED <<rm_pc, rmDialogVars, rmRunVars>>
    /\ UNCHANGED notRm

\* APPLY REVISIONS is clicked and validation passes: the checked indices are
\* mapped to revisions and sheets and the confirmation alert is shown.
ApplyRevisions ==
    /\ rm_pc = "idle"
    /\ rm_runs < MaxRuns
    /\ ValidationPassed
    /\ selected_revisions' = MapSelectedRevisions
    /\ selected_sheets' = MapSelectedSheets
    /\ rm_op' = "apply"
    /\ rm_pc' = "confirm"
    /\ rm_runs' = rm_runs + 1
    /\ UNCHANGED <<rmDialogVars, rm_i, sheetRevs, rm_before, rm_written, rm_txn,
                   success_count, error_count, skipped_count, status_text, rm_result>>
    /\ UNCHANGED notRm

\* REMOVE REVISIONS is clicked and validation passes: the same head.
RemoveRevisions ==
    /\ rm_pc = "idle"
    /\ rm_runs < MaxRuns
    /\ ValidationPassed
    /\ selected_revisions' = MapSelectedRevisions
    /\ selected_sheets' = MapSelectedSheets
    /\ rm_op' = "remove"
    /\ rm_pc' = "confirm"
    /\ rm_runs' = rm_runs + 1
    /\ UNCHANGED <<rmDialogVars, rm_i, sheetRevs, rm_before, rm_written, rm_txn,
                   success_count, error_count, skipped_count, status_text, rm_result>>
    /\ UNCHANGED notRm

\* The user answers No: the handler returns.
RmConfirmNo ==
    /\ rm_pc = "confirm"
    /\ rm_pc' = "idle"
    /\ rm_op' = None
    /\ selected_revisions' = <<>>
    /\ selected_sheets' = <<>>
    /\ UNCHANGED <<rmDialogVars, rm_i, sheetRevs, rm_before, rm_written, rm_txn,
                   success_count, error_count, skipped_count, status_text, rm_result,
                   rm_runs>>
    /\ UNCHANGED notRm

\* The user answers Yes: the status box is cleared, the counters start at 0 and
\* the transaction is opened.
RmConfirmYes ==
    /\ rm_pc = "confirm"
    /\ rm_pc' = "transaction"
    /\ rm_txn' = "open"
    /\ status_text' = <<>>
    /\ success_count' = 0
    /\ error_count' = 0
    /\ skipped_count' = 0
    /\ rm_i' = 0
    /\ rm_before' = sheetRevs
    /\ rm_written' = {}
    /\ UNCHANGED <<rmDialogVars, rm_op, selected_revisions,
                   selected_sheets, sheetRevs, rm_result, rm_runs>>
    /\ UNCHANGED notRm

\* One iteration of the loop of ApplyRevisions, SetAdditionalRevisionIds
\* returning normally.
ApplyRevisions_Sheet ==
    /\ rm_pc = "transaction"
    /\ rm_op = "apply"
    /\ rm_i < Len(selected_sheets)
    /\ LET sheet == selected_sheets[rm_i + 1]
           rev_ids == AddNewRevisions(sheetRevs[sheet], selected_revisions)
       IN  /\ sheetRevs' = [sheetRevs EXCEPT ![sheet] = rev_ids]
           /\ rm_written' = rm_written \cup {sheet}
           /\ status_text' = Append(status_text, <<sheet, "ok">>)
    /\ success_count' = success_count + 1
    /\ rm_i' = rm_i + 1
    /\ UNCHANGED <<rm_pc, rmDialogVars, rm_op, selected_revisions,
                   selected_sheets, rm_before, rm_txn, error_count, skipped_count,
                   rm_result, rm_runs>>
    /\ UNCHANGED notRm

\* One iteration of the loop of RemoveRevisions, the host calls returning
\* normally.
RemoveRevisions_Sheet ==
    /\ rm_pc = "transaction"
    /\ rm_op = "remove"
    /\ rm_i < Len(selected_sheets)
    /\ LET sheet == selected_sheets[rm_i + 1]
           original == sheetRevs[sheet]
           rev_ids == RemoveSelected(original, selected_revisions)
       IN  IF NothingToRemove(original, rev_ids)
           THEN /\ skipped_count' = skipped_count + 1
                /\ status_text' = Append(status_text, <<sheet, "skip">>)
                /\ UNCHANGED <<sheetRevs, rm_written, success_count>>
           ELSE /\ sheetRevs' = [sheetRevs EXCEPT ![sheet] = rev_ids]
                /\ rm_written' = rm_written \cup {sheet}
                /\ success_count' = success_count + 1
                /\ status_text' = Append(status_text, <<sheet, "ok">>)
                /\ UNCHANGED skipped_count
    /\ rm_i' = rm_i + 1
    /\ UNCHANGED <<rm_pc, rmDialogVars, rm_op, selected_revisions,
                   selected_sheets, rm_before, rm_txn, error_count, rm_result, rm_runs>>
    /\ UNCHANGED notRm

\* One iteration of either loop in which a host call raises
\* (GetAdditionalRevisionIds or SetAdditionalRevisionIds): the except branch
\* counts and logs the error and the loop goes on with the next sheet.
Rm_SheetRaises ==
    /\ rm_pc = "transaction"
    /\ rm_i < Len(selected_sheets)
    /\ error_count' = error_count + 1
    /\ status_text' = Append(status_text, <<selected_sheets[rm_i + 1], "error">>)
    /\ rm_i' = rm_i + 1
    /\ UNCHANGED <<rm_pc, rmDialogVars, rm_op, selected_revisions,
                   selected_sheets, sheetRevs, rm_before, rm_written, rm_txn,
                   success_count, skipped_count, rm_result, rm_runs>>
    /\ UNCHANGED notRm

\* The loop is over: the with block commits, the summary is logged and the
\* "Complete" alert is shown.
Rm_Summary ==
    /\ rm_pc = "transaction"
    /\ rm_i = Len(selected_sheets)
    /\ rm_txn' = "committed"
    /\ status_text' = Append(status_text, <<0, "COMPLETE">>)
    /\ rm_pc' = "complete"
    /\ UNCHANGED <<rmDialogVars, rm_op, selected_revisions,
                   selected_sheets, rm_i, sheetRevs, rm_before, rm_written,
                   success_count, error_count, skipped_count, rm_result, rm_runs>>
    /\ UNCHANGED notRm

\* The alert is dismissed: result = True, the button is enabled again and the
\* handler returns.  Its locals are gone; selected_revisions, selected_sheets
\* and the status box are overwritten by the next click before anything reads
\* them, so they are cleared here.
Rm_Return ==
    /\ rm_pc = "complete"
    /\ rm_pc' = "idle"
    /\ rm_result' = TRUE
    /\ rm_op' = None
    /\ rm_txn' = "none"
    /\ rm_i' = 0
    /\ success_count' = 0
    /\ error_count' = 0
    /\ skipped_count' = 0
    /\ rm_before' = sheetRevs
    /\ rm_written' = {}
    /\ selected_revisions' = <<>>
    /\ selected_sheets' = <<>>
    /\ status_text' = <<>>
    /\ UNCHANGED <<rmDialogVars, sheetRevs, rm_runs>>
    /\ UNCHANGED notRm

\* The form is closed: ShowDialog returns, the script prints its last line from
\* self.result and ends; the form's controls are gone.
Rm_Close ==
    /\ rm_pc = "idle"
    /\ rm_pc' = "closed"
    /\ unissued_radio' = FALSE
    /\ revision_list' = <<>>
    /\ revision_checked' = {}
    /\ sheet_filter_textbox' = <<>>
    /\ sheet_list' = <<>>
    /\ sheet_checked' = {}
    /\ UNCHANGED rmRunVars
    /\ UNCHANGED notRm

RmNext ==
    \/ RevisionItemCheck
    \/ SheetItemCheck
    \/ SelectAllRevisions
    \/ ClearAllRevisions
    \/ SelectAllSheets
    \/ ClearAllSheets
    \/ OnRevisionFilterChanged
    \/ OnSheetFilterChanged
    \/ RmValidationError
    \/ ApplyRevisions
    \/ RemoveRevisions
    \/ RmConfirmNo
    \/ RmConfirmYes
    \/ ApplyRevisions_Sheet
    \/ RemoveRevisions_Sheet
    \/ Rm_SheetRaises
    \/ Rm_Summary
    \/ Rm_Return
    \/ Rm_Close

(***************************************************************************)
(* Transfer Filter.pushbutton/TransferFilters_script.py                    *)
(*                                                                         *)
(* A filter element is a record [name, dup, origin]: "name" and "dup" make *)
(* its Name (dup > 0 is the number the host appends to a duplicate) and    *)
(* "origin" is the project its definition comes from.  A FilterItem of the *)
(* list is named by the filter name it shows.  Assigning the value of      *)
(* `selected > 0 and self.doc_from and self.doc_to` to IsEnabled stores    *)
(* its truth value.  ItemsSource is null until the first RefreshFilterList *)
(* and is modelled as the empty list then: both are falsy, and both leave  *)
(* a click on Transfer without effect.                                     *)
(***************************************************************************)
\* Number of open projects, and of filter names in use.
NumProjects == 2
NumFilters == 2
\* Most UpdateSelectedCount callbacks waiting in the dispatcher queue.
MaxQueued == 2

Projects == 1..NumProjects
FilterNames == 1..NumFilters
\* self.doc_from / self.doc_to before a project is chosen.
NoDoc == 0

\* The filters of the open projects when the script starts: project p holds
\* the filters named p, p + 1, ...
InitialFilters(p) == {[name |-> f, dup |-> 0, origin |-> p] : f \in {g \in FilterNames : g >= p}}

\* f.Name of the filter named f, as text: F1, F2, ...
DigitChars == <<"1", "2", "3", "4", "5", "6", "7", "8", "9">>
FilterNameText(f) == <<"F", DigitChars[f]>>
\* What the user can type into txtSearch.
SearchTexts == {<<>>, <<"F", "2">>}

\* `sorted(filters, key=lambda x: x.Name)`, as the names of the items.
RECURSIVE SortedNames(_)
SortedNames(S) ==
    IF S = {} THEN <<>>
    ELSE LET m == CHOOSE x \in S : \A y \in S : x <= y
         IN  <<m>> \o SortedNames(S \ {m})

\* The filter items LoadFilters builds from a document.
LoadedFilters(doc) == SortedNames({e.name : e \in {x \in doc : x.dup = 0}})

\* RefreshFilterList: the items the list shows for a search text.
FilteredItems(items, text) ==
    LET search_text == Lower(text)
        keep(f) == IsSubstring(search_text, Lower(FilterNameText(f)))
    IN  IF search_text # <<>> THEN SelectSeq(items, keep) ELSE items

\* `sum(1 for f in self.lstFilters.ItemsSource if f.IsSelected)`
SelectedCount_AllFilters(items, selected) == Cardinality(selected)
SelectedCount(items, selected) == Cardinality({k \in 1..Len(items) : items[k] \in selected})

\* UpdateSelectedCount: the text and the button state it leaves, given the old ones.
UpdateSelectedCount_Text(items, selected, old) ==
    IF items # <<>> THEN SelectedCount(items, selected) ELSE old
UpdateSelectedCount_IsEnabled(items, selected, from, to, old) ==
    IF items # <<>>
    THEN SelectedCount(items, selected) > 0 /\ from # NoDoc /\ to # NoDoc
    ELSE old

TfOff ==
    /\ tf_pc = "off"
    /\ doc_from = NoDoc
    /\ doc_to = NoDoc
    /\ all_filters = <<>>
    /\ all_filters_doc = NoDoc
    /\ IsSelected = {}
    /\ txtSearch = <<>>
    /\ ItemsSource = <<>>
    /\ txtFilterCount = 0
    /\ txtSelectedCount = 0
    /\ txtStatus = None
    /\ chkOverride = FALSE
    /\ btnTransfer_IsEnabled = FALSE
    /\ dispatcher_queue = 0
    /\ docFilters = <<>>
    /\ selected_filters = <<>>
    /\ tf_before = {}
    /\ tf_group = "none"
    /\ removed_count = 0
    /\ transferred = 0
    /\ updated = 0
    /\ failed = 0
    /\ tf_dialog = None

\* TransferFiltersWindow.__init__: at least two projects are open, so
\* LoadProjects fills both combo boxes.  The XAML file decides whether the
\* Transfer button starts enabled.
TfInit ==
    /\ tf_pc = "dialog"
    /\ doc_from = NoDoc
    /\ doc_to = NoDoc
    /\ all_filters = <<>>
    /\ all_filters_doc = NoDoc
    /\ IsSelected = {}
    /\ txtSearch = <<>>
    /\ ItemsSource = <<>>
    /\ txtFilterCount = 0
    /\ txtSelectedCount = 0
    /\ txtStatus = "Ready"
    /\ chkOverride = FALSE
    /\ btnTransfer_IsEnabled \in BOOLEAN
    /\ dispatcher_queue = 0
    /\ docFilters = [p \in Projects |-> InitialFilters(p)]
    /\ selected_filters = <<>>
    /\ tf_before = {}
    /\ tf_group = "none"
    /\ removed_count = 0
    /\ transferred = 0
    /\ updated = 0
    /\ failed = 0
    /\ tf_dialog = None

\* ---- event handlers of the window ----------------------------------------
\* Another project is picked in cmbCopyFrom.
OnCopyFromChanged ==
    /\ tf_pc = "dialog"
    /\ \E p \in Projects :
          /\ p # doc_from
          /\ doc_from' = p
          /\ IF doc_to # NoDoc /\ p = doc_to
             THEN /\ txtStatus' = "Error: Cannot transfer to same project"
                  /\ btnTransfer_IsEnabled' = FALSE
                  /\ UNCHANGED <<all_filters, all_filters_doc, IsSelected, ItemsSource,
                                 txtFilterCount, txtSelectedCount>>
             ELSE \* LoadFilters
                  /\ all_filters' = LoadedFilters(docFilters[p])
                  /\ all_filters_doc' = p
                  /\ IsSelected' = {}
                  /\ ItemsSource' = FilteredItems(all_filters', txtSearch)
                  /\ txtFilterCount' = Len(all_filters')
                  /\ txtSelectedCount' =
                         UpdateSelectedCount_Text(ItemsSource', IsSelected', txtSelectedCount)
                  /\ btnTransfer_IsEnabled' =
                         UpdateSelectedCount_IsEnabled(ItemsSource', IsSelected', p, doc_to,
                                                       btnTransfer_IsEnabled)
                  /\ txtStatus' = "Filters loaded"
    /\ UNCHANGED <<tf_pc, doc_to, txtSearch, chkOverride, dispatcher_queue, tfRunVars>>
    /\ UNCHANGED notTf

\* Another project is picked in cmbCopyTo.
OnCopyToChanged ==
    /\ tf_pc = "dialog"
    /\ \E p \in Projects :
          /\ p # doc_to
          /\ doc_to' = p
          /\ IF doc_from # NoDoc /\ doc_from = p
             THEN /\ txtStatus' = "Error: Cannot transfer to same project"
                  /\ btnTransfer_IsEnabled' = FALSE
                  /\ UNCHANGED txtSelectedCount
             ELSE /\ txtStatus' = "Ready to transfer"
                  /\ txtSelectedCount' =
                         UpdateSelectedCount_Text(ItemsSource, IsSelected, txtSelectedCount)
                  /\ btnTransfer_IsEnabled' =
                         UpdateSelectedCount_IsEnabled(ItemsSource, IsSelected, doc_from, p,
                                                       btnTransfer_IsEnabled)
    /\ UNCHANGED <<tf_pc, doc_from, all_filters, all_filters_doc, IsSelected, txtSearch,
                   ItemsSource, txtFilterCount, chkOverride, dispatcher_queue, tfRunVars>>
    /\ UNCHANGED notTf

\* The search text changes: RefreshFilterList, and nothing else.
OnSearchChanged ==
    /\ tf_pc = "dialog"
    /\ \E text \in SearchTexts :
          /\ text # txtSearch
          /\ txtSearch' = text
          /\ ItemsSource' = FilteredItems(all_filters, text)
    /\ UNCHANGED <<tf_pc, doc_from, doc_to, all_filters, all_filters_doc, IsSelected,
                   txtFilterCount, txtSelectedCount, txtStatus, chkOverride,
                   btnTransfer_IsEnabled, dispatcher_queue, tfRunVars>>
    /\ UNCHANGED notTf

\* The user clicks the check box of a shown item: the IsSelected setter runs.
FilterItem_IsSelected ==
    /\ tf_pc = "dialog"
    /\ \E k \in 1..Len(ItemsSource) :
          IsSelected' = IF ItemsSource[k] \in IsSelected
                        THEN IsSelected \ {ItemsSource[k]}
                        ELSE IsSelected \cup {ItemsSource[k]}
    /\ UNCHANGED <<tf_pc, doc_from, doc_to, all_filters, all_filters_doc, txtSearch,
                   ItemsSource, txtFilterCount, txtSelectedCount, txtStatus, chkOverride,
                   btnTransfer_IsEnabled, dispatcher_queue, tfRunVars>>
    /\ UNCHANGED notTf

\* lstFilters.SelectionChanged: UpdateSelectedCount is queued on the dispatcher
\* at Background priority; the handler itself changes nothing else.
OnFilterSelectionChanged ==
    /\ tf_pc = "dialog"
    /\ all_filters # <<>>
    /\ dispatcher_queue < MaxQueued
    /\ dispatcher_queue' = dispatcher_queue + 1
    /\ UNCHANGED <<tf_pc, doc_from, doc_to, all_filters, all_filters_doc, IsSelected,
                   txtSearch, ItemsSource, txtFilterCount, txtSelectedCount, txtStatus,
                   chkOverride, btnTransfer_IsEnabled, tfRunVars>>
    /\ UNCHANGED notTf

\* The dispatcher runs a queued UpdateSelectedCount (the window or the modal
\* confirmation is pumping messages).
Dispatcher_UpdateSelectedCount ==
    /\ tf_pc \in {"dialog", "confirm"}
    /\ dispatcher_queue > 0
    /\ dispatcher_queue' = dispatcher_queue - 1
    /\ txtSelectedCount' = UpdateSelectedCount_Text(ItemsSource, IsSelected, txtSelectedCount)
    /\ btnTransfer_IsEnabled' =
           UpdateSelectedCount_IsEnabled(ItemsSource, IsSelected, doc_from, doc_to,
                                         btnTransfer_IsEnabled)
    /\ UNCHANGED <<tf_pc, doc_from, doc_to, all_filters, all_filters_doc, IsSelected,
                   txtSearch, ItemsSource, txtFilterCount, txtStatus, chkOverride,
                   tfRunVars>>
    /\ UNCHANGED notTf

OnSelectAll ==
    /\ tf_pc = "dialog"
    /\ IF ItemsSource # <<>>
       THEN /\ IsSelected' = IsSelected \cup Range(ItemsSource)
            /\ txtSelectedCount' =
                   UpdateSelectedCount_Text(ItemsSource, IsSelected', txtSelectedCount)
            /\ btnTransfer_IsEnabled' =
                   UpdateSelectedCount_IsEnabled(ItemsSource, IsSelected', doc_from, doc_to,
                                                 btnTransfer_IsEnabled)
       ELSE UNCHANGED <<IsSelected, txtSelectedCount, btnTransfer_IsEnabled>>
    /\ UNCHANGED <<tf_pc, doc_from, doc_to, all_filters, all_filters_doc, txtSearch,
                   ItemsSource, txtFilterCount, txtStatus, chkOverride, dispatcher_queue,
                   tfRunVars>>
    /\ UNCHANGED notTf

OnSelectNone ==
    /\ tf_pc = "dialog"
    /\ IF ItemsSource # <<>>
       THEN /\ IsSelected' = IsSelected \ Range(ItemsSource)
            /\ txtSelectedCount' =
                   UpdateSelectedCount_Text(ItemsSource, IsSelected', txtSelectedCount)
            /\ btnTransfer_IsEnabled' =
                   UpdateSelectedCount_IsEnabled(ItemsSource, IsSelected', doc_from, doc_to,
                                                 btnTransfer_IsEnabled)
       ELSE UNCHANGED <<IsSelected, txtSelectedCount, btnTransfer_IsEnabled>>
    /\ UNCHANGED <<tf_pc, doc_from, doc_to, all_filters, all_filters_doc, txtSearch,
                   ItemsSource, txtFilterCount, txtStatus, chkOverride, dispatcher_queue,
                   tfRunVars>>
    /\ UNCHANGED notTf

\* The user clicks the Override check box (no handler is attached to it).
chkOverride_Click ==
    /\ tf_pc = "dialog"
    /\ chkOverride' = ~chkOverride
    /\ UNCHANGED <<tf_pc, doc_from, doc_to, all_filters, all_filters_doc, IsSelected,
                   txtSearch, ItemsSource, txtFilterCount, txtSelectedCount, txtStatus,
                   btnTransfer_IsEnabled, dispatcher_queue, tfRunVars>>
    /\ UNCHANGED notTf

\* `[f for f in self.lstFilters.ItemsSource if f.IsSelected]`
SelectedFilters ==
    LET keep(f) == f \in IsSelected IN SelectSeq(ItemsSource, keep)

\* OnTransfer with nothing to start: no shown item is selected (the error
\* dialog is shown), or a project is missing (building the confirmation
\* message raises).  The handler ends and the window is as before.
OnTransfer_Rejected ==
    /\ tf_pc = "dialog"
    /\ btnTransfer_IsEnabled
    /\ SelectedFilters = <<>> \/ doc_from = NoDoc \/ doc_to = NoDoc
    /\ UNCHANGED <<tf_pc, tfDialogVars, tfRunVars>>
    /\ UNCHANGED notTf

\* OnTransfer -> TransferFilters up to the confirmation dialog.
OnTransfer ==
    /\ tf_pc = "dialog"
    /\ btnTransfer_IsEnabled
    /\ SelectedFilters # <<>>
    /\ doc_from # NoDoc
    /\ doc_to # NoDoc
    /\ selected_filters' = SelectedFilters
    /\ tf_pc' = "confirm"
    /\ UNCHANGED <<tfDialogVars, docFilters, tf_before, tf_group, removed_count,
                   transferred, updated, failed, tf_dialog>>
    /\ UNCHANGED notTf

\* The user answers No: TransferFilters returns, the window stays open.
TransferFilters_ConfirmNo ==
    /\ tf_pc = "confirm"
    /\ tf_pc' = "dialog"
    /\ selected_filters' = <<>>
    /\ UNCHANGED <<tfDialogVars, docFilters, tf_before, tf_group, removed_count,
                   transferred, updated, failed, tf_dialog>>
    /\ UNCHANGED notTf

\* The user answers Yes: the window is closed (callbacks still queued can no
\* longer be seen), the counters start at 0 and the transaction group starts.
TransferFilters_ConfirmYes ==
    /\ tf_pc = "confirm"
    /\ tf_pc' = IF chkOverride THEN "remove" ELSE "copy"
    /\ dispatcher_queue' = 0
    /\ tf_group' = "started"
    /\ tf_before' = docFilters[doc_to]
    /\ removed_count' = 0
    /\ transferred' = 0
    /\ updated' = 0
    /\ failed' = 0
    /\ UNCHANGED <<doc_from, doc_to, all_filters, all_filters_doc, IsSelected, txtSearch,
                   ItemsSource, txtFilterCount, txtSelectedCount, txtStatus, chkOverride,
                   btnTransfer_IsEnabled, docFilters, selected_filters, tf_dialog>>
    /\ UNCHANGED notTf

\* Step 1, transaction "Remove Existing Filters": RemoveSameNameFilters deletes
\* the destination filters with a selected name; a Delete that raises is
\* passed over.  The transaction commits.
RemoveSameNameFilters ==
    /\ tf_pc = "remove"
    /\ LET same_name == {e \in docFilters[doc_to] :
                            e.dup = 0 /\ e.name \in Range(selected_filters)}
       IN  \E deleted \in SUBSET same_name :
              /\ docFilters' = [docFilters EXCEPT ![doc_to] = @ \ deleted]
              /\ removed_count' = Cardinality(deleted)
    /\ tf_pc' = "copy"
    /\ UNCHANGED <<tfDialogVars, selected_filters, tf_before, tf_group, transferred,
                   updated, failed, tf_dialog>>
    /\ UNCHANGED notTf

\* The least duplicate number under which the name is free in the document.
RECURSIVE FreeDup(_, _, _)
FreeDup(doc, f, n) ==
    IF \E e \in doc : e.name = f /\ e.dup = n THEN FreeDup(doc, f, n + 1) ELSE n

\* ElementTransformUtils.CopyElements of the selected filters into a document.
CopyElements(source, names, dest) ==
    dest \cup {[name |-> e.name, dup |-> FreeDup(dest, e.name, 0), origin |-> e.origin] :
                  e \in {x \in source : x.dup = 0 /\ x.name \in names}}

\* The selected ids name filters of doc_from that still exist.
SelectedIdsValid ==
    /\ all_filters_doc = doc_from
    /\ \A k \in 1..Len(selected_filters) :
          \E e \in docFilters[doc_from] : e.dup = 0 /\ e.name = selected_filters[k]

\* Step 2, transaction "Copy Filters", CopyElements returning normally: the
\* transaction commits.
CopyFilters ==
    /\ tf_pc = "copy"
    /\ SelectedIdsValid
    /\ docFilters' = [docFilters EXCEPT ![doc_to] =
                         CopyElements(docFilters[doc_from], Range(selected_filters), @)]
    /\ tf_pc' = "assimilate"
    /\ UNCHANGED <<tfDialogVars, selected_filters, tf_before, tf_group, removed_count,
                   transferred, updated, failed, tf_dialog>>
    /\ UNCHANGED notTf

\* Step 2 with CopyElements raising: the except branch rolls the copy
\* transaction back and sets failed.
CopyFilters_Raises ==
    /\ tf_pc = "copy"
    /\ failed' = Len(selected_filters)
    /\ tf_pc' = "assimilate"
    /\ UNCHANGED <<tfDialogVars, docFilters, selected_filters, tf_before, tf_group,
                   removed_count, transferred, updated, tf_dialog>>
    /\ UNCHANGED notTf

\* tg.Assimilate(), the report loop, the summary and the closing dialog.
TransferFilters_Assimilate ==
    /\ tf_pc = "assimilate"
    /\ tf_group' = "assimilated"
    /\ updated' = IF chkOverride THEN Len(selected_filters) ELSE 0
    /\ transferred' = IF chkOverride THEN 0 ELSE Len(selected_filters)
    /\ tf_dialog' = IF transferred' + updated' > 0 THEN "Complete" ELSE "Failed"
    /\ tf_pc' = "done"
    /\ UNCHANGED <<tfDialogVars, docFilters, selected_filters, tf_before, removed_count,
                   failed>>
    /\ UNCHANGED notTf

\* tg.Assimilate() raises: the outer except branch rolls the group back.
TransferFilters_GroupFails ==
    /\ tf_pc = "assimilate"
    /\ tf_group' = "rolledback"
    /\ docFilters' = [docFilters EXCEPT ![doc_to] = tf_before]
    /\ failed' = Len(selected_filters)
    /\ tf_dialog' = "Failed"
    /\ tf_pc' = "done"
    /\ UNCHANGED <<tfDialogVars, selected_filters, tf_before, removed_count, transferred,
                   updated>>
    /\ UNCHANGED notTf

\* The Close button: the window closes and the script ends.
OnClose ==
    /\ tf_pc = "dialog"
    /\ tf_pc' = "closed"
    /\ dispatcher_queue' = 0
    /\ UNCHANGED <<doc_from, doc_to, all_filters, all_filters_doc, IsSelected, txtSearch,
                   ItemsSource, txtFilterCount, txtSelectedCount, txtStatus, chkOverride,
                   btnTransfer_IsEnabled, tfRunVars>>
    /\ UNCHANGED notTf

TfNext ==
    \/ OnCopyFromChanged
    \/ OnCopyToChanged
    \/ OnSearchChanged
    \/ FilterItem_IsSelected
    \/ OnFilterSelectionChanged
    \/ Dispatcher_UpdateSelectedCount
    \/ OnSelectAll
    \/ OnSelectNone
    \/ chkOverride_Click
    \/ OnTransfer_Rejected
    \/ OnTransfer
    \/ TransferFilters_ConfirmNo
    \/ TransferFilters_ConfirmYes
    \/ RemoveSameNameFilters
    \/ CopyFilters
    \/ CopyFilters_Raises
    \/ TransferFilters_Assimilate
    \/ TransferFilters_GroupFails
    \/ OnClose

(***************************************************************************)
(* Create Walls.pushbutton/WallFromLine_script.py and                      *)
(* Create Slab.pushbutton/SlabFromLine_script.py: splitting                *)
(*                                                                         *)
(* Lengths are whole numbers of a unit of half an inch, and the joint gap  *)
(* is an even number of units, so that half a gap is a whole number.  The  *)
(* tolerances of the code (0.01 ft for lengths, 0.001 for arc parameters)  *)
(* lie strictly between 0 and one unit, so `x > 0.01` is x > 0 and         *)
(* `x < y - 0.01` is x < y on these lengths.  A wall or slab is a record   *)
(* [line, from, to]: the piece of the selected line between two distances  *)
(* from the line's start point.                                            *)
(***************************************************************************)
\* Most lines in the selection, longest line, largest interval and gap.
MaxLines == 2
MaxLineLength == 4
MaxInterval == 3
MaxGap == 4

\* The curves a selected line can have.
CurveKinds == {"Line", "Arc"}
LineInputs == [length : 1..MaxLineLength, kind : CurveKinds]
Selections == UNION {[1..n -> LineInputs] : n \in 1..MaxLines}
\* Gaps the dialog accepts (gap >= 0) with a whole half.
JointGaps == {g \in 0..MaxGap : g % 2 = 0}

RECURSIVE SumLengths(_, _)
\* Sum of curve.Length over the first n selected lines.
SumLengths(sel, n) == IF n = 0 THEN 0 ELSE SumLengths(sel, n - 1) + sel[n].length

\* `while current_pos < total_line_length - 0.01: append; current_pos += interval + gap`
RECURSIVE SplitPositions(_, _, _, _)
SplitPositions(current_pos, total_line_length, interval, gap) ==
    IF current_pos < total_line_length
    THEN <<current_pos>> \o
         SplitPositions(current_pos + interval + gap, total_line_length, interval, gap)
    ELSE <<>>

\* `[sp for sp in split_positions if segment_start < sp < segment_end]`
SplitsInSegment(positions, segment_start, segment_end) ==
    LET keep(sp) == segment_start < sp /\ sp < segment_end IN SelectSeq(positions, keep)

\* max(0.0, min(1.0, d / length)), as a distance on the curve.
Clamp(d, length) == IF d < 0 THEN 0 ELSE IF d > length THEN length ELSE d
Abs(x) == IF x < 0 THEN -x ELSE x

\* The piece created between two distances of a curve, as a set (empty when
\* the code creates none).  Walls on a Line test the distance between the two
\* end points; slabs test the signed difference; arcs clamp their parameters.
SegmentPieces(script, kind, line, from, to, length) ==
    IF kind = "Line"
    THEN IF script = "wall"
         THEN IF Abs(to - from) > 0
              THEN {[line |-> line, from |-> from, to |-> to]} ELSE {}
         ELSE IF to - from > 0
              THEN {[line |-> line, from |-> from, to |-> to]} ELSE {}
    ELSE IF (script = "slab" => to - from > 0) /\ Clamp(to, length) - Clamp(from, length) > 0
         THEN {[line |-> line, from |-> Clamp(from, length), to |-> Clamp(to, length)]}
         ELSE {}

SpOff ==
    /\ sp_pc = "off"
    /\ sp_script = None
    /\ selection = <<>>
    /\ split_enabled = FALSE
    /\ interval_ft = 0
    /\ joint_gap_ft = 0
    /\ created_walls_map = {}
    /\ sp_failed = 0
    /\ split_positions = <<>>
    /\ sp_line = 0
    /\ cumulative_length = 0
    /\ splits_in_this_segment = <<>>
    /\ sp_idx = 0
    /\ prev_distance = 0
    /\ sub_walls = {}
    /\ all_new_walls = {}
    /\ total_walls = 0

\* The dialog was accepted with valid input (interval > 0, gap >= 0) and the
\* user picked the lines.
SpInit ==
    /\ sp_pc = "create"
    /\ sp_script \in {"wall", "slab"}
    /\ selection \in Selections
    /\ split_enabled \in BOOLEAN
    /\ interval_ft \in 1..MaxInterval
    /\ joint_gap_ft \in JointGaps
    /\ created_walls_map = {}
    /\ sp_failed = 0
    /\ split_positions = <<>>
    /\ sp_line = 0
    /\ cumulative_length = 0
    /\ splits_in_this_segment = <<>>
    /\ sp_idx = 0
    /\ prev_distance = 0
    /\ sub_walls = {}
    /\ all_new_walls = {}
    /\ total_walls = 0

\* The whole element created for a line in step 1.
WholeWall(j) == [line |-> j, from |-> 0, to |-> selection[j].length]

\* STEP 1: an element is created for every selected line; a line whose
\* creation fails is counted in failed.  Then the split decision: with
\* splitting enabled and a total length above the interval the split positions
\* are computed and the loop over the lines starts, otherwise the elements are
\* only counted.
Split_CreateElements ==
    /\ sp_pc = "create"
    /\ \E created \in SUBSET (1..Len(selection)) :
          /\ created_walls_map' = created
          /\ sp_failed' = Len(selection) - Cardinality(created)
          /\ LET total_line_length == SumLengths(selection, Len(selection))
             IN  IF split_enabled /\ created # {} /\ total_line_length > interval_ft
                 THEN /\ split_positions' = SplitPositions(interval_ft, total_line_length,
                                                           interval_ft, joint_gap_ft)
                      /\ sp_pc' = "loop"
                      /\ UNCHANGED <<all_new_walls, total_walls>>
                 ELSE /\ all_new_walls' = {WholeWall(j) : j \in created}
                      /\ total_walls' = Cardinality(created)
                      /\ sp_pc' = "summary"
                      /\ UNCHANGED split_positions
    /\ UNCHANGED <<sp_script, selection, split_enabled, interval_ft, joint_gap_ft, sp_line,
                   cumulative_length, splits_in_this_segment, sp_idx, prev_distance,
                   sub_walls>>
    /\ UNCHANGED notSp

\* Loop over the selection, a line without an element: `continue`.
Split_SkipFailedLine ==
    /\ sp_pc = "loop"
    /\ sp_line < Len(selection)
    /\ (sp_line + 1) \notin created_walls_map
    /\ sp_line' = sp_line + 1
    /\ UNCHANGED <<sp_pc, sp_script, selection, split_enabled, interval_ft, joint_gap_ft,
                   created_walls_map, sp_failed, split_positions, cumulative_length,
                   splits_in_this_segment, sp_idx, prev_distance, sub_walls, all_new_walls,
                   total_walls>>
    /\ UNCHANGED notSp

\* Loop over the selection, no split position falls within this element: the
\* original is kept.
Split_KeepOriginal ==
    /\ sp_pc = "loop"
    /\ sp_line < Len(selection)
    /\ (sp_line + 1) \in created_walls_map
    /\ LET wall_length == selection[sp_line + 1].length
       IN  /\ SplitsInSegment(split_positions, cumulative_length,
                              cumulative_length + wall_length) = <<>>
           /\ cumulative_length' = cumulative_length + wall_length
    /\ all_new_walls' = all_new_walls \cup {WholeWall(sp_line + 1)}
    /\ sp_line' = sp_line + 1
    /\ UNCHANGED <<sp_pc, sp_script, selection, split_enabled, interval_ft, joint_gap_ft,
                   created_walls_map, sp_failed, split_positions, splits_in_this_segment,
                   sp_idx, prev_distance, sub_walls, total_walls>>
    /\ UNCHANGED notSp

\* Loop over the selection, split positions fall within this element: the
\* loop over them starts with prev_distance = 0.
Split_BeginElement ==
    /\ sp_pc = "loop"
    /\ sp_line < Len(selection)
    /\ (sp_line + 1) \in created_walls_map
    /\ LET wall_length == selection[sp_line + 1].length
       IN  /\ SplitsInSegment(split_positions, cumulative_length,
                              cumulative_length + wall_length) # <<>>
           /\ splits_in_this_segment' =
                  SplitsInSegment(split_positions, cumulative_length,
                                  cumulative_length + wall_length)
    /\ sp_idx' = 0
    /\ prev_distance' = 0
    /\ sub_walls' = {}
    /\ sp_pc' = "splitting"
    /\ UNCHANGED <<sp_script, selection, split_enabled, interval_ft, joint_gap_ft,
                   created_walls_map, sp_failed, split_positions, sp_line,
                   cumulative_length, all_new_walls, total_walls>>
    /\ UNCHANGED notSp

\* One split position of the element: the piece from prev_distance to half a
\* gap before the split, and prev_distance moves to half a gap after it.
Split_Segment ==
    /\ sp_pc = "splitting"
    /\ sp_idx < Len(splits_in_this_segment)
    /\ LET distance_on_wall == splits_in_this_segment[sp_idx + 1] - cumulative_length
           line == selection[sp_line + 1]
       IN  /\ sub_walls' = sub_walls \cup
                  SegmentPieces(sp_script, line.kind, sp_line + 1, prev_distance,
                                distance_on_wall - joint_gap_ft \div 2, line.length)
           /\ prev_distance' = distance_on_wall + joint_gap_ft \div 2
    /\ sp_idx' = sp_idx + 1
    /\ UNCHANGED <<sp_pc, sp_script, selection, split_enabled, interval_ft, joint_gap_ft,
                   created_walls_map, sp_failed, split_positions, sp_line,
                   cumulative_length, splits_in_this_segment, all_new_walls, total_walls>>
    /\ UNCHANGED notSp

\* After the last split position: the piece from prev_distance to the end of
\* the curve if prev_distance < length; the pieces replace the original if
\* there are any, and the cumulative length grows by the length of the curve.
Split_LastSegment ==
    /\ sp_pc = "splitting"
    /\ sp_idx = Len(splits_in_this_segment)
    /\ LET line == selection[sp_line + 1]
           last == IF prev_distance < line.length
                   THEN SegmentPieces(sp_script, line.kind, sp_line + 1, prev_distance,
                                      line.length, line.length)
                   ELSE {}
           pieces == sub_walls \cup last
       IN  /\ all_new_walls' = all_new_walls \cup
                  (IF pieces # {} THEN pieces ELSE {WholeWall(sp_line + 1)})
           /\ cumulative_length' = cumulative_length + line.length
    /\ sp_line' = sp_line + 1
    /\ sub_walls' = {}
    /\ splits_in_this_segment' = <<>>
    /\ sp_idx' = 0
    /\ prev_distance' = 0
    /\ sp_pc' = "loop"
    /\ UNCHANGED <<sp_script, selection, split_enabled, interval_ft, joint_gap_ft,
                   created_walls_map, sp_failed, split_positions, total_walls>>
    /\ UNCHANGED notSp

\* The loop is over: the split originals are deleted and the elements counted.
Split_Count ==
    /\ sp_pc = "loop"
    /\ sp_line = Len(selection)
    /\ total_walls' = Cardinality(all_new_walls)
    /\ sp_pc' = "summary"
    /\ UNCHANGED <<sp_script, selection, split_enabled, interval_ft, joint_gap_ft,
                   created_walls_map, sp_failed, split_positions, sp_line,
                   cumulative_length, splits_in_this_segment, sp_idx, prev_distance,
                   sub_walls, all_new_walls>>
    /\ UNCHANGED notSp

\* The transaction commits, the summary is printed and the "Complete" dialog
\* is shown.
Split_Summary ==
    /\ sp_pc = "summary"
    /\ sp_pc' = "done"
    /\ UNCHANGED <<sp_script, selection, split_enabled, interval_ft, joint_gap_ft,
                   created_walls_map, sp_failed, split_positions, sp_line,
                   cumulative_length, splits_in_this_segment, sp_idx, prev_distance,
                   sub_walls, all_new_walls, total_walls>>
    /\ UNCHANGED notSp

SpNext ==
    \/ Split_CreateElements
    \/ Split_SkipFailedLine
    \/ Split_KeepOriginal
    \/ Split_BeginElement
    \/ Split_Segment
    \/ Split_LastSegment
    \/ Split_Count
    \/ Split_Summary

(***************************************************************************)
(* Automation.tab Comments Value.pushbutton/script.py: natural sort by     *)
(* Mark and numbering                                                      *)
(*                                                                         *)
(* An element is named by its Mark text (the sort compares only the keys   *)
(* of the Mark texts).  A key is a sequence of chunks, <<"n", number>> for *)
(* a run of digits and <<"s", text>> for the rest.                         *)
(***************************************************************************)
\* Most elements with a Mark, and the longest Mark text.
MaxMarks == 2
MaxMarkLen == 2

\* The characters Mark texts are made of, and all Mark texts.
MarkChars == {"a", "B", "1", "2"}
Marks == UNION {[1..n -> MarkChars] : n \in 1..MaxMarkLen}

\* The characters in use, in the order of their character codes.
CharOrder == <<"-", "0", "1", "2", "3", "4", "5", "6", "7", "8", "9",
               "A", "B", "F", "I", "P", "a", "b", "f", "i", "p">>
CharCode(c) == CHOOSE k \in 1..Len(CharOrder) : CharOrder[k] = c
DecimalDigits == <<"0", "1", "2", "3", "4", "5", "6", "7", "8", "9">>
IsDigit(c) == \E k \in 1..Len(DecimalDigits) : DecimalDigits[k] = c
DigitValue(c) == (CHOOSE k \in 1..Len(DecimalDigits) : DecimalDigits[k] = c) - 1

\* int(p) of a run of digits.
RECURSIVE ToInt(_)
ToInt(p) == IF p = <<>> THEN 0 ELSE 10 * ToInt(SubSeq(p, 1, Len(p) - 1)) + DigitValue(p[Len(p)])

\* str(n) for n >= 0, and s.zfill(width).
RECURSIVE Str(_)
Str(n) == IF n < 10 THEN <<DecimalDigits[n + 1]>>
          ELSE Str(n \div 10) \o <<DecimalDigits[(n % 10) + 1]>>
RECURSIVE ZFill(_, _)
ZFill(s, width) == IF Len(s) >= width THEN s ELSE ZFill(<<"0">> \o s, width)

\* The prefix the user entered at forms.ask_for_string.
mk_prefix == <<"P", "-">>

\* "{}{:03d}".format(prefix, count)
CommentText(count_value) == mk_prefix \o ZFill(Str(count_value), 3)

\* Length of the longest prefix of s whose characters are all digits
\* (digits = TRUE) or all non-digits (digits = FALSE).
RECURSIVE RunLength(_, _)
RunLength(s, digits) ==
    IF s = <<>> \/ IsDigit(Head(s)) # digits THEN 0 ELSE 1 + RunLength(Tail(s), digits)

\* re.split(r'(\d+)', s): text, digits, text, ..., text.
RECURSIVE DigitsSplit(_)
DigitsSplit(s) ==
    LET n == RunLength(s, FALSE)
        rest == SubSeq(s, n + 1, Len(s))
        d == RunLength(rest, TRUE)
    IN  IF rest = <<>> THEN <<SubSeq(s, 1, n)>>
        ELSE <<SubSeq(s, 1, n), SubSeq(rest, 1, d)>> \o DigitsSplit(SubSeq(rest, d + 1, Len(rest)))

\* p.isdigit()
IsDigitString(p) == p # <<>> /\ \A k \in 1..Len(p) : IsDigit(p[k])

\* `int(p) if p.isdigit() else p.lower()`
KeyChunk_NoInt(p) == <<"s", Lower(p)>>
KeyChunk(p) == IF IsDigitString(p) THEN <<"n", ToInt(p)>> ELSE <<"s", Lower(p)>>

alphanum_key(s) == LET parts == DigitsSplit(s) IN [k \in 1..Len(parts) |-> KeyChunk(parts[k])]

\* a < b on strings: by character codes, a proper prefix first.
TextLess(a, b) ==
    \E k \in 1..(Len(b)) :
        /\ \A j \in 1..(k - 1) : j <= Len(a) /\ a[j] = b[j]
        /\ k - 1 <= Len(a)
        /\ (k > Len(a) \/ CharCode(a[k]) < CharCode(b[k]))

\* x < y on two chunks of a key (a number sorts before a text).
ChunkLess(x, y) ==
    IF x[1] = "n" /\ y[1] = "n" THEN x[2] < y[2]
    ELSE IF x[1] = "s" /\ y[1] = "s" THEN TextLess(x[2], y[2])
    ELSE x[1] = "n"

\* x < y on two key tuples: the first differing chunk decides, a proper prefix
\* comes first.
KeyLess(x, y) ==
    \E k \in 1..Len(y) :
        /\ \A j \in 1..(k - 1) : j <= Len(x) /\ x[j] = y[j]
        /\ k - 1 <= Len(x)
        /\ (k > Len(x) \/ ChunkLess(x[k], y[k]))

\* list.sort(key=...): stable, so an element is placed after the elements
\* whose key is not greater.
RECURSIVE InsertByKey(_, _)
InsertByKey(sorted, m) ==
    IF sorted = <<>> THEN <<m>>
    ELSE IF KeyLess(alphanum_key(m), alphanum_key(Head(sorted)))
         THEN <<m>> \o sorted
         ELSE <<Head(sorted)>> \o InsertByKey(Tail(sorted), m)
RECURSIVE SortByKey(_)
SortByKey(s) ==
    IF s = <<>> THEN <<>> ELSE InsertByKey(SortByKey(SubSeq(s, 1, Len(s) - 1)), s[Len(s)])

MkOff ==
    /\ mk_pc = "off"
    /\ marked_elements = <<>>
    /\ mk_i = 0
    /\ count = 0
    /\ mk_updated = 0
    /\ mk_comments = <<>>
    /\ mk_txn = "none"

\* Steps 1-6 are over: the elements of the selected type that have a
\* non-empty Mark are collected, in collector order, and there is at least one.
MkInit ==
    /\ mk_pc = "collected"
    /\ marked_elements \in UNION {[1..n -> Marks] : n \in 1..MaxMarks}
    /\ mk_i = 0
    /\ count = 0
    /\ mk_updated = 0
    /\ mk_comments = <<>>
    /\ mk_txn = "none"

\* Step 7: marked_elements.sort(key=alphanum_key of the mark text); then
\* count = 1 and the transaction opens.
Mk_Sort ==
    /\ mk_pc = "collected"
    /\ marked_elements' = SortByKey(marked_elements)
    /\ count' = 1
    /\ mk_txn' = "open"
    /\ mk_pc' = "writing"
    /\ UNCHANGED <<mk_i, mk_updated, mk_comments>>
    /\ UNCHANGED notMk

\* Step 8, one element whose Comments is set: it gets the prefix and the
\* number count.
Mk_SetComment ==
    /\ mk_pc = "writing"
    /\ mk_i < Len(marked_elements)
    /\ mk_comments' = Append(mk_comments, CommentText(count))
    /\ count' = count + 1
    /\ mk_updated' = mk_updated + 1
    /\ mk_i' = mk_i + 1
    /\ UNCHANGED <<mk_pc, marked_elements, mk_txn>>
    /\ UNCHANGED notMk

\* Step 8, one element without a writable Comments parameter, or whose Set
\* raises: `continue` (the empty text stands for no comment written).
Mk_SkipComment_CountsOn ==
    /\ mk_pc = "writing"
    /\ mk_i < Len(marked_elements)
    /\ mk_comments' = Append(mk_comments, <<>>)
    /\ count' = count + 1
    /\ mk_i' = mk_i + 1
    /\ UNCHANGED <<mk_pc, marked_elements, mk_updated, mk_txn>>
    /\ UNCHANGED notMk
Mk_SkipComment ==
    /\ mk_pc = "writing"
    /\ mk_i < Len(marked_elements)
    /\ mk_comments' = Append(mk_comments, <<>>)
    /\ mk_i' = mk_i + 1
    /\ UNCHANGED <<mk_pc, marked_elements, count, mk_updated, mk_txn>>
    /\ UNCHANGED notMk

\* The loop is over: the transaction commits and the summary is printed.
Mk_Summary ==
    /\ mk_pc = "writing"
    /\ mk_i = Len(marked_elements)
    /\ mk_txn' = "committed"
    /\ mk_pc' = "done"
    /\ UNCHANGED <<marked_elements, mk_i, count, mk_updated, mk_comments>>
    /\ UNCHANGED notMk

MkNext ==
    \/ Mk_Sort
    \/ Mk_SetComment
    \/ Mk_SkipComment
    \/ Mk_Summary

(***************************************************************************)
(* Grid Dimension.pushbutton/GridAnnotation_script.py:                     *)
(* classify_grids_for_view                                                 *)
(*                                                                         *)
(* A grid is its curve, [kind, direction]: a straight grid has a Line with *)
(* a unit Direction, <<X, Y>> in hundredths; a curved grid has an Arc, a   *)
(* curve without a Direction, so that reading it raises.                   *)
(***************************************************************************)
\* Most grids passed to the function.
MaxGrids == 2

\* `> 0.97`, in hundredths.
DirectionThreshold == 97

\* Directions of straight grids (unit vectors, rounded to hundredths).
GridDirections == {<<100, 0>>, <<-100, 0>>, <<0, 100>>, <<0, -100>>, <<98, 20>>,
                   <<97, 24>>, <<24, -97>>, <<-20, 98>>, <<71, 71>>, <<-71, 71>>}
GridCurves == {[kind |-> "Line", direction |-> d] : d \in GridDirections}
                  \cup {[kind |-> "Arc", direction |-> <<0, 0>>]}

\* The lists one loop iteration appends the grid to, for a Direction.
ListsFor_NoInclined(direction) ==
    IF Abs(direction[1]) > DirectionThreshold THEN {"horizontal"}
    ELSE IF Abs(direction[2]) > DirectionThreshold THEN {"vertical"}
    ELSE {}
ListsFor(direction) ==
    IF Abs(direction[1]) > DirectionThreshold THEN {"horizontal"}
    ELSE IF Abs(direction[2]) > DirectionThreshold THEN {"vertical"}
    ELSE {"inclined"}

GrOff ==
    /\ gr_pc = "off"
    /\ grids = <<>>
    /\ gr_i = 0
    /\ vertical_grids = <<>>
    /\ horizontal_grids = <<>>
    /\ inclined_grids = <<>>

\* classify_grids_for_view is called: the three lists are empty.
GrInit ==
    /\ gr_pc = "loop"
    /\ grids \in UNION {[1..n -> GridCurves] : n \in 1..MaxGrids}
    /\ gr_i = 0
    /\ vertical_grids = <<>>
    /\ horizontal_grids = <<>>
    /\ inclined_grids = <<>>

\* One iteration for a grid whose curve has a Direction: the grid (named by
\* its position in grids) is appended to the list its direction selects.
Classify_Grid ==
    /\ gr_pc = "loop"
    /\ gr_i < Len(grids)
    /\ grids[gr_i + 1].kind = "Line"
    /\ LET lists == ListsFor(grids[gr_i + 1].direction)
       IN  /\ horizontal_grids' = IF "horizontal" \in lists
                                  THEN Append(horizontal_grids, gr_i + 1)
                                  ELSE horizontal_grids
           /\ vertical_grids' = IF "vertical" \in lists
                                THEN Append(vertical_grids, gr_i + 1)
                                ELSE vertical_grids
           /\ inclined_grids' = IF "inclined" \in lists
                                THEN Append(inclined_grids, gr_i + 1)
                                ELSE inclined_grids
    /\ gr_i' = gr_i + 1
    /\ UNCHANGED <<gr_pc, grids>>
    /\ UNCHANGED notGr

\* One iteration for a grid whose curve has no Direction: the attribute access
\* raises and `except: pass` goes on with the next grid.
Classify_GridRaises ==
    /\ gr_pc = "loop"
    /\ gr_i < Len(grids)
    /\ grids[gr_i + 1].kind = "Arc"
    /\ gr_i' = gr_i + 1
    /\ UNCHANGED <<gr_pc, grids, vertical_grids, horizontal_grids, inclined_grids>>
    /\ UNCHANGED notGr

\* `return vertical_grids, horizontal_grids, inclined_grids`
Classify_Return ==
    /\ gr_pc = "loop"
    /\ gr_i = Len(grids)
    /\ gr_pc' = "returned"
    /\ UNCHANGED <<grids, gr_i, vertical_grids, horizontal_grids, inclined_grids>>
    /\ UNCHANGED notGr

GrNext ==
    \/ Classify_Grid
    \/ Classify_GridRaises
    \/ Classify_Return

(***************************************************************************)
(* Origin.pushbutton/RotateAssemblies_script.py: CalculateRotationAngle    *)
(*                                                                         *)
(* Angles are whole degrees.  A BasisX projected to the XY plane is one of *)
(* the eight compass directions or the zero vector; [x, y, negzero] with   *)
(* negzero telling a y of -0.0 from +0.0, which math.atan2 tells apart.    *)
(***************************************************************************)
\* BasisX vectors, projected and normalized.
BasisVectors ==
    {[x |-> vx, y |-> vy, negzero |-> FALSE] : vx \in {-1, 0, 1}, vy \in {-1, 0, 1}}
        \cup {[x |-> vx, y |-> 0, negzero |-> TRUE] : vx \in {-1, 0, 1}}

\* math.degrees(math.atan2(v.Y, v.X))
Atan2Degrees(v) ==
    CASE v.y > 0 -> (IF v.x > 0 THEN 45 ELSE IF v.x = 0 THEN 90 ELSE 135)
      [] v.y < 0 -> (IF v.x > 0 THEN -45 ELSE IF v.x = 0 THEN -90 ELSE -135)
      [] OTHER -> (IF v.x >= 0 THEN 0 ELSE IF v.negzero THEN -180 ELSE 180)

\* What txtAngle can hold in Manual mode: a number, or text float() rejects.
ManualAngles == {[valid |-> TRUE, value |-> a] : a \in {90, 270, -400}}
                    \cup {[valid |-> FALSE, value |-> 0]}

\* The conditions of the two normalization loops.
AboveRange(a) == a > 180
BelowRange_Never(a) == FALSE
BelowRange(a) == a < -180

RotOff ==
    /\ rot_pc = "off"
    /\ rbAuto = FALSE
    /\ ErectionMarkElement = FALSE
    /\ mark_x = None
    /\ assembly_x = None
    /\ txtAngle = None
    /\ angle_deg = 0
    /\ rot_result = None

\* CalculateRotationAngle is called for an assembly.
RotInit ==
    /\ rot_pc = "called"
    /\ rbAuto \in BOOLEAN
    /\ ErectionMarkElement \in BOOLEAN
    /\ mark_x \in BasisVectors
    /\ assembly_x \in BasisVectors
    /\ txtAngle \in ManualAngles
    /\ angle_deg = 0
    /\ rot_result = None

\* Auto mode with an erection mark: the difference of the two atan2 angles, in
\* degrees.
Rot_Difference ==
    /\ rot_pc = "called"
    /\ rbAuto
    /\ ErectionMarkElement
    /\ angle_deg' = Atan2Degrees(mark_x) - Atan2Degrees(assembly_x)
    /\ rot_pc' = "normalize"
    /\ UNCHANGED <<rbAuto, ErectionMarkElement, mark_x, assembly_x, txtAngle, rot_result>>
    /\ UNCHANGED notRot

\* Auto mode with an erection mark, a host call raising (GetTransform,
\* Normalize): the except branch returns 0.0.
Rot_Raises ==
    /\ rot_pc = "called"
    /\ rbAuto
    /\ ErectionMarkElement
    /\ rot_result' = 0
    /\ rot_pc' = "returned"
    /\ UNCHANGED <<rbAuto, ErectionMarkElement, mark_x, assembly_x, txtAngle, angle_deg>>
    /\ UNCHANGED notRot

\* Auto mode without an erection mark: 0.0.
Rot_NoMark ==
    /\ rot_pc = "called"
    /\ rbAuto
    /\ ~ErectionMarkElement
    /\ rot_result' = 0
    /\ rot_pc' = "returned"
    /\ UNCHANGED <<rbAuto, ErectionMarkElement, mark_x, assembly_x, txtAngle, angle_deg>>
    /\ UNCHANGED notRot

\* Manual mode: float(txtAngle.Text), or 0.0 when that raises.
Rot_Manual ==
    /\ rot_pc = "called"
    /\ ~rbAuto
    /\ rot_result' = IF txtAngle.valid THEN txtAngle.value ELSE 0
    /\ rot_pc' = "returned"
    /\ UNCHANGED <<rbAuto, ErectionMarkElement, mark_x, assembly_x, txtAngle, angle_deg>>
    /\ UNCHANGED notRot

\* `while angle_deg > 180: angle_deg -= 360`, one iteration.
Rot_Subtract360 ==
    /\ rot_pc = "normalize"
    /\ AboveRange(angle_deg)
    /\ angle_deg' = angle_deg - 360
    /\ UNCHANGED <<rot_pc, rbAuto, ErectionMarkElement, mark_x, assembly_x, txtAngle,
                   rot_result>>
    /\ UNCHANGED notRot

\* `while angle_deg < -180: angle_deg += 360`, one iteration (the first loop is
\* over).
Rot_Add360 ==
    /\ rot_pc = "normalize"
    /\ ~AboveRange(angle_deg)
    /\ BelowRange(angle_deg)
    /\ angle_deg' = angle_deg + 360
    /\ UNCHANGED <<rot_pc, rbAuto, ErectionMarkElement, mark_x, assembly_x, txtAngle,
                   rot_result>>
    /\ UNCHANGED notRot

\* Both loops are over: `return angle_deg`.
Rot_Return ==
    /\ rot_pc = "normalize"
    /\ ~AboveRange(angle_deg)
    /\ ~BelowRange(angle_deg)
    /\ rot_result' = angle_deg
    /\ rot_pc' = "returned"
    /\ UNCHANGED <<rbAuto, ErectionMarkElement, mark_x, assembly_x, txtAngle, angle_deg>>
    /\ UNCHANGED notRot

RotNext ==
    \/ Rot_Difference
    \/ Rot_Raises
    \/ Rot_NoMark
    \/ Rot_Manual
    \/ Rot_Subtract360
    \/ Rot_Add360
    \/ Rot_Return

(***************************************************************************)
(* Parameter Value.panel Comments Value.pushbutton:                        *)
(* SetCommentValues_script.py (SetCommentWindow)                           *)
(*                                                                         *)
(* script.py of the same pushbutton holds the same GetNewComments and the  *)
(* same apply loop on Windows Forms controls.  An element is named by its  *)
(* position in filtered_elements; filtered_elements[k] is its Mark text,   *)
(* the empty text for an element without a Mark.  The methods modelled are *)
(* "Comma-Separated" and "Based on Mark Order".                            *)
(***************************************************************************)
\* Most elements of the selected type, and the longest CSV text typed.
MaxElements == 2
MaxCsvLen == 3

ElementMarks == {<<>>, <<"1">>, <<"2">>, <<"a">>, <<"a", "2">>, <<"1", "2">>, <<"2", "a">>}
CsvChars == {"x", ",", " ", "\n"}
CsvTexts == UNION {[1..n -> CsvChars] : n \in 0..MaxCsvLen}
MarkPrefixes == {<<>>, <<"P">>, <<"P", " ">>}
Methods == {"Comma-Separated", "Based on Mark Order"}

\* s.strip()
IsSpace(c) == c \in {" ", "\n"}
RECURSIVE LStrip(_)
LStrip(s) == IF s # <<>> /\ IsSpace(Head(s)) THEN LStrip(Tail(s)) ELSE s
RECURSIVE RStrip(_)
RStrip(s) == IF s # <<>> /\ IsSpace(s[Len(s)]) THEN RStrip(SubSeq(s, 1, Len(s) - 1)) ELSE s
Strip(s) == RStrip(LStrip(s))

\* s.replace(a, b) for single characters, and s.split(sep).
Replace(s, a, b) == [k \in 1..Len(s) |-> IF s[k] = a THEN b ELSE s[k]]
RECURSIVE Split(_, _)
Split(s, sep) ==
    IF \E k \in 1..Len(s) : s[k] = sep
    THEN LET n == CHOOSE k \in 1..Len(s) : s[k] = sep /\ \A j \in 1..(k - 1) : s[j] # sep
         IN  <<SubSeq(s, 1, n - 1)>> \o Split(SubSeq(s, n + 1, Len(s)), sep)
    ELSE <<s>>

\* [v.strip() for v in text.replace('\n', ',').split(',') if v.strip()]
CsvValues_KeepBlank(text) ==
    LET parts == Split(Replace(text, "\n", ","), ",")
    IN  [k \in 1..Len(parts) |-> Strip(parts[k])]
CsvValues(text) ==
    LET parts == Split(Replace(text, "\n", ","), ",")
        NotBlank(v) == Strip(v) # <<>>
        kept == SelectSeq(parts, NotBlank)
    IN  [k \in 1..Len(kept) |-> Strip(kept[k])]

\* re.search(r'(\d+)(?!.*\d)', mark): the run of digits no digit follows,
\* or the empty text when the mark holds no digit.
LastNumber(mark) ==
    IF \E k \in 1..Len(mark) : IsDigit(mark[k])
    THEN LET last == CHOOSE k \in 1..Len(mark) :
                         IsDigit(mark[k]) /\ \A j \in (k + 1)..Len(mark) : ~IsDigit(mark[j])
             first == CHOOSE k \in 1..last :
                          /\ \A j \in k..last : IsDigit(mark[j])
                          /\ (k = 1 \/ ~IsDigit(mark[k - 1]))
         IN  SubSeq(mark, first, last)
    ELSE <<>>

\* The comment of one marked element: "{}-{}".format(prefix, num_padded), or
\* the prefix alone when the Mark holds no number.
MarkComment(prefix, mark) ==
    IF LastNumber(mark) # <<>>
    THEN prefix \o <<"-">> \o ZFill(Str(ToInt(LastNumber(mark))), 3)
    ELSE prefix

\* The elements with a Mark, in filtered_elements order, and sorted by
\* marked_elements.sort(key=lambda x: alphanum_key(x[0])) (stable).
MarkedElements(elements) ==
    LET HasMark(e) == elements[e] # <<>>
    IN  SelectSeq([k \in 1..Len(elements) |-> k], HasMark)
RECURSIVE InsertMarked(_, _, _)
InsertMarked(sorted, e, elements) ==
    IF sorted = <<>> THEN <<e>>
    ELSE IF KeyLess(alphanum_key(elements[e]), alphanum_key(elements[Head(sorted)]))
         THEN <<e>> \o sorted
         ELSE <<Head(sorted)>> \o InsertMarked(Tail(sorted), e, elements)
RECURSIVE SortMarked(_, _)
SortMarked(marked, elements) ==
    IF marked = <<>> THEN <<>>
    ELSE InsertMarked(SortMarked(SubSeq(marked, 1, Len(marked) - 1), elements),
                      marked[Len(marked)], elements)

\* The "Based on Mark Order" branch: elem_to_comment for the sorted marked
\* elements, then one comment per filtered element ("" without a Mark).
MarkOrderComments(prefix, elements) ==
    LET sorted == SortMarked(MarkedElements(elements), elements)
        elem_to_comment == [e \in Range(sorted) |-> MarkComment(prefix, elements[e])]
    IN  [k \in 1..Len(elements) |->
            IF k \in DOMAIN elem_to_comment THEN elem_to_comment[k] ELSE <<>>]

\* GetNewComments(): alert is the validation alert shown ("none": no alert,
\* the comments are returned; otherwise None is returned).
GetNewComments ==
    LET elem_count == Len(filtered_elements)
    IN  IF cmbMethod = "Comma-Separated"
        THEN LET text == Strip(txtCSV)
                 values == CsvValues(text)
             IN  IF text = <<>>
                 THEN [alert |-> "Please enter values", comments |-> <<>>]
                 ELSE IF Len(values) # elem_count
                 THEN [alert |-> "Value mismatch", comments |-> <<>>]
                 ELSE [alert |-> "none", comments |-> values]
        ELSE IF MarkedElements(filtered_elements) = <<>>
             THEN [alert |-> "No elements have Mark values", comments |-> <<>>]
             ELSE [alert |-> "none",
                   comments |-> MarkOrderComments(Strip(txtMarkPrefix), filtered_elements)]

CvOff ==
    /\ cv_pc = "off"
    /\ filtered_elements = <<>>
    /\ cmbMethod = "Single Value"
    /\ txtCSV = <<>>
    /\ txtMarkPrefix = <<>>
    /\ new_comments = <<>>
    /\ cv_alert = "none"
    /\ cv_i = 0
    /\ Comments = <<>>
    /\ cv_txn = "none"
    /\ success = 0
    /\ errors = 0
    /\ cv_result = FALSE

\* The window is open, a type is selected (OnTypeChanged filled
\* filtered_elements and enabled APPLY), a method is selected and the text
\* box of its panel is filled in.
CvInit ==
    /\ cv_pc = "dialog"
    /\ filtered_elements \in UNION {[1..n -> ElementMarks] : n \in 1..MaxElements}
    /\ cmbMethod \in Methods
    /\ txtCSV \in (IF cmbMethod = "Comma-Separated" THEN CsvTexts ELSE {<<>>})
    /\ txtMarkPrefix \in (IF cmbMethod = "Based on Mark Order" THEN MarkPrefixes ELSE {<<>>})
    /\ new_comments = <<>>
    /\ cv_alert = "none"
    /\ cv_i = 0
    /\ Comments = [k \in 1..Len(filtered_elements) |-> [set |-> FALSE, value |-> <<>>]]
    /\ cv_txn = "none"
    /\ success = 0
    /\ errors = 0
    /\ cv_result = FALSE

\* OnApplyComments, GetNewComments returns None after its alert: return.
OnApplyComments_Rejected ==
    /\ cv_pc = "dialog"
    /\ filtered_elements # <<>>
    /\ GetNewComments.alert # "none"
    /\ cv_alert' = GetNewComments.alert
    /\ UNCHANGED <<cv_pc, filtered_elements, cmbMethod, txtCSV, txtMarkPrefix, new_comments,
                   cv_i, Comments, cv_txn, success, errors, cv_result>>
    /\ UNCHANGED notCv

\* OnApplyComments, GetNewComments returns a non-empty list: the Confirm
\* alert is shown.
OnApplyComments ==
    /\ cv_pc = "dialog"
    /\ filtered_elements # <<>>
    /\ GetNewComments.alert = "none"
    /\ GetNewComments.comments # <<>>
    /\ new_comments' = GetNewComments.comments
    /\ cv_alert' = "Confirm"
    /\ cv_pc' = "confirm"
    /\ UNCHANGED <<filtered_elements, cmbMethod, txtCSV, txtMarkPrefix, cv_i, Comments,
                   cv_txn, success, errors, cv_result>>
    /\ UNCHANGED notCv

\* The user answers No: return.
Cv_ConfirmNo ==
    /\ cv_pc = "confirm"
    /\ new_comments' = <<>>
    /\ cv_alert' = "none"
    /\ cv_pc' = "dialog"
    /\ UNCHANGED <<filtered_elements, cmbMethod, txtCSV, txtMarkPrefix, cv_i, Comments,
                   cv_txn, success, errors, cv_result>>
    /\ UNCHANGED notCv

\* The user answers Yes: revit.Transaction("Set Comment Values") starts.
Cv_ConfirmYes ==
    /\ cv_pc = "confirm"
    /\ cv_txn' = "open"
    /\ cv_alert' = "none"
    /\ cv_pc' = "transaction"
    /\ UNCHANGED <<filtered_elements, cmbMethod, txtCSV, txtMarkPrefix, new_comments, cv_i,
                   Comments, success, errors, cv_result>>
    /\ UNCHANGED notCv

\* Elements that zip(self.filtered_elements, new_comments) yields.
ZipLength == IF Len(filtered_elements) < Len(new_comments)
             THEN Len(filtered_elements) ELSE Len(new_comments)

\* One element of the loop with a writable Comments parameter: param.Set(comment).
Cv_SetComment ==
    /\ cv_pc = "transaction"
    /\ cv_i < ZipLength
    /\ Comments' = [Comments EXCEPT
                       ![cv_i + 1] = [set |-> TRUE, value |-> new_comments[cv_i + 1]]]
    /\ success' = success + 1
    /\ cv_i' = cv_i + 1
    /\ UNCHANGED <<cv_pc, filtered_elements, cmbMethod, txtCSV, txtMarkPrefix, new_comments,
                   cv_alert, cv_txn, errors, cv_result>>
    /\ UNCHANGED notCv

\* One element whose Comments parameter is missing or read-only, or whose
\* Set raises: errors += 1.
Cv_ParamError ==
    /\ cv_pc = "transaction"
    /\ cv_i < ZipLength
    /\ errors' = errors + 1
    /\ cv_i' = cv_i + 1
    /\ UNCHANGED <<cv_pc, filtered_elements, cmbMethod, txtCSV, txtMarkPrefix, new_comments,
                   cv_alert, Comments, cv_txn, success, cv_result>>
    /\ UNCHANGED notCv

\* The loop is over: the transaction commits, the "Complete" alert is shown,
\* self.result = True and the window closes.
Cv_Summary ==
    /\ cv_pc = "transaction"
    /\ cv_i = ZipLength
    /\ cv_txn' = "committed"
    /\ cv_alert' = "Complete"
    /\ cv_result' = TRUE
    /\ cv_pc' = "closed"
    /\ UNCHANGED <<filtered_elements, cmbMethod, txtCSV, txtMarkPrefix, new_comments, cv_i,
                   Comments, success, errors>>
    /\ UNCHANGED notCv

\* OnClose: the window closes.
Cv_OnClose ==
    /\ cv_pc = "dialog"
    /\ cv_pc' = "closed"
    /\ UNCHANGED <<filtered_elements, cmbMethod, txtCSV, txtMarkPrefix, new_comments,
                   cv_alert, cv_i, Comments, cv_txn, success, errors, cv_result>>
    /\ UNCHANGED notCv

CvNext ==
    \/ OnApplyComments_Rejected
    \/ OnApplyComments
    \/ Cv_ConfirmNo
    \/ Cv_ConfirmYes
    \/ Cv_SetComment
    \/ Cv_ParamError
    \/ Cv_Summary
    \/ Cv_OnClose

(***************************************************************************)
(* Title Block.pushbutton: Automation.tab script.py (TitleBlockBatchUpdate,*)
(* Windows Forms) and BA_Tools.tab script.py / TitleBlockUpdate_script.py  *)
(* (WPF; the two hold the same Update handler)                             *)
(*                                                                         *)
(* The Forms DateTimePicker always has a Value (the current time until the *)
(* user picks a date); the WPF DatePicker has a SelectedDate only after    *)
(* the user picked one.                                                    *)
(***************************************************************************)
\* Number of sheets with a title block.
NumTitleBlockSheets == 2

TbScripts == {"Automation", "BA_Tools"}
TbSheets == 1..NumTitleBlockSheets

\* The parameter text boxes of each dialog.
TextFields(script) ==
    IF script = "Automation"
    THEN {"Drawn By", "Checked By", "Designed By", "Approved By", "Project Number"}
    ELSE {"Drawn By", "Checked By", "Designed By", "Approved By", "Project Number",
          "Project Name"}
AllTextFields == TextFields("BA_Tools")
FieldTexts == {<<>>, <<" ">>, <<"x">>}

\* The keys of params after the `if ....Text.strip():` lines and the date.
\* Automation: `params_to_update['Sheet Issue Date'] = issue_date` is
\* unconditional; BA_Tools: `if self.datePicker.SelectedDate:`.
ParamsToUpdate(script, fields, date_picked) ==
    {f \in TextFields(script) : Strip(fields[f]) # <<>>}
        \cup (IF script = "Automation" \/ date_picked THEN {"Sheet Issue Date"} ELSE {})

\* The selected sheets in list order.
SelectedSheets == PickIndices([k \in 1..NumTitleBlockSheets |-> k], tb_selected, 1)

TbOff ==
    /\ tb_pc = "off"
    /\ tb_script = "Automation"
    /\ tb_fields = [f \in AllTextFields |-> <<>>]
    /\ tb_date_picked = FALSE
    /\ tb_selected = {}
    /\ tb_alert = "none"
    /\ tb_params = {}
    /\ tb_i = 0
    /\ tb_written = {}
    /\ tb_txn = "none"
    /\ tb_success = 0
    /\ tb_errors = 0
    /\ tb_result = FALSE

\* The dialog is open; the user has typed into text boxes, may have picked a
\* date and has selected sheets.
TbInit ==
    /\ tb_pc = "dialog"
    /\ tb_script \in TbScripts
    /\ tb_fields \in [AllTextFields -> FieldTexts]
    /\ \A f \in AllTextFields \ TextFields(tb_script) : tb_fields[f] = <<>>
    /\ tb_date_picked \in BOOLEAN
    /\ tb_selected \in SUBSET TbSheets
    /\ tb_alert = "none"
    /\ tb_params = {}
    /\ tb_i = 0
    /\ tb_written = {}
    /\ tb_txn = "none"
    /\ tb_success = 0
    /\ tb_errors = 0
    /\ tb_result = FALSE

\* ClearFields / OnClearFields: the text boxes are emptied; the date picker
\* goes back to DateTime.Now (Forms) or to no SelectedDate (WPF).
Tb_ClearFields ==
    /\ tb_pc = "dialog"
    /\ tb_fields' = [f \in AllTextFields |-> <<>>]
    /\ tb_date_picked' = FALSE
    /\ tb_alert' = "none"
    /\ UNCHANGED <<tb_pc, tb_script, tb_selected, tb_params, tb_i, tb_written, tb_txn,
                   tb_success, tb_errors, tb_result>>
    /\ UNCHANGED notTb

\* SelectAll / OnSelectAll / OnSelectAllChanged.
Tb_SelectAll ==
    /\ tb_pc = "dialog"
    /\ tb_selected' = TbSheets
    /\ tb_alert' = "none"
    /\ UNCHANGED <<tb_pc, tb_script, tb_fields, tb_date_picked, tb_params, tb_i, tb_written,
                   tb_txn, tb_success, tb_errors, tb_result>>
    /\ UNCHANGED notTb

\* ClearAll / OnClearAll / OnSelectNoneChanged.
Tb_ClearAll ==
    /\ tb_pc = "dialog"
    /\ tb_selected' = {}
    /\ tb_alert' = "none"
    /\ UNCHANGED <<tb_pc, tb_script, tb_fields, tb_date_picked, tb_params, tb_i, tb_written,
                   tb_txn, tb_success, tb_errors, tb_result>>
    /\ UNCHANGED notTb

\* CANCEL: the window closes.
Tb_Cancel ==
    /\ tb_pc = "dialog"
    /\ tb_alert' = "none"
    /\ tb_pc' = "closed"
    /\ UNCHANGED <<tb_script, tb_fields, tb_date_picked, tb_selected, tb_params, tb_i,
                   tb_written, tb_txn, tb_success, tb_errors, tb_result>>
    /\ UNCHANGED notTb

\* UPDATE with no sheet selected: validation alert, return.
Tb_Update_NoSheets ==
    /\ tb_pc = "dialog"
    /\ tb_selected = {}
    /\ tb_alert' = "Please select at least one sheet"
    /\ UNCHANGED <<tb_pc, tb_script, tb_fields, tb_date_picked, tb_selected, tb_params, tb_i,
                   tb_written, tb_txn, tb_success, tb_errors, tb_result>>
    /\ UNCHANGED notTb

\* UPDATE with sheets selected and params empty: validation alert, return.
Tb_Update_NoParams ==
    /\ tb_pc = "dialog"
    /\ tb_selected # {}
    /\ ParamsToUpdate(tb_script, tb_fields, tb_date_picked) = {}
    /\ tb_alert' = "Please fill in at least one parameter"
    /\ UNCHANGED <<tb_pc, tb_script, tb_fields, tb_date_picked, tb_selected, tb_params, tb_i,
                   tb_written, tb_txn, tb_success, tb_errors, tb_result>>
    /\ UNCHANGED notTb

\* UPDATE with sheets selected and params not empty: the confirmation is asked.
Tb_Update ==
    /\ tb_pc = "dialog"
    /\ tb_selected # {}
    /\ ParamsToUpdate(tb_script, tb_fields, tb_date_picked) # {}
    /\ tb_params' = ParamsToUpdate(tb_script, tb_fields, tb_date_picked)
    /\ tb_alert' = "Confirm"
    /\ tb_pc' = "confirm"
    /\ UNCHANGED <<tb_script, tb_fields, tb_date_picked, tb_selected, tb_i, tb_written,
                   tb_txn, tb_success, tb_errors, tb_result>>
    /\ UNCHANGED notTb

\* The user answers No: return.
Tb_ConfirmNo ==
    /\ tb_pc = "confirm"
    /\ tb_params' = {}
    /\ tb_alert' = "none"
    /\ tb_pc' = "dialog"
    /\ UNCHANGED <<tb_script, tb_fields, tb_date_picked, tb_selected, tb_i, tb_written,
                   tb_txn, tb_success, tb_errors, tb_result>>
    /\ UNCHANGED notTb

\* The user answers Yes: the "Update Title Blocks" transaction starts.
Tb_ConfirmYes ==
    /\ tb_pc = "confirm"
    /\ tb_txn' = "open"
    /\ tb_alert' = "none"
    /\ tb_pc' = "transaction"
    /\ UNCHANGED <<tb_script, tb_fields, tb_date_picked, tb_selected, tb_params, tb_i,
                   tb_written, tb_success, tb_errors, tb_result>>
    /\ UNCHANGED notTb

\* One selected sheet on which at least one parameter of params is found,
\* writable and Set: success.
Tb_UpdateSheet ==
    /\ tb_pc = "transaction"
    /\ tb_i < Len(SelectedSheets)
    /\ tb_written' = tb_written \cup {SelectedSheets[tb_i + 1]}
    /\ tb_success' = tb_success + 1
    /\ tb_i' = tb_i + 1
    /\ UNCHANGED <<tb_pc, tb_script, tb_fields, tb_date_picked, tb_selected, tb_alert,
                   tb_params, tb_txn, tb_errors, tb_result>>
    /\ UNCHANGED notTb

\* One selected sheet on which no parameter is updated (none found, all
\* read-only, every Set raises) or whose handling raises: error.
Tb_SheetFails ==
    /\ tb_pc = "transaction"
    /\ tb_i < Len(SelectedSheets)
    /\ tb_errors' = tb_errors + 1
    /\ tb_i' = tb_i + 1
    /\ UNCHANGED <<tb_pc, tb_script, tb_fields, tb_date_picked, tb_selected, tb_alert,
                   tb_params, tb_written, tb_txn, tb_success, tb_result>>
    /\ UNCHANGED notTb

\* The loop is over: the transaction commits, the "Complete" alert is shown
\* and self.result = True.
Tb_Summary ==
    /\ tb_pc = "transaction"
    /\ tb_i = Len(SelectedSheets)
    /\ tb_txn' = "committed"
    /\ tb_alert' = "Complete"
    /\ tb_result' = TRUE
    /\ tb_pc' = "complete"
    /\ UNCHANGED <<tb_script, tb_fields, tb_date_picked, tb_selected, tb_params, tb_i,
                   tb_written, tb_success, tb_errors>>
    /\ UNCHANGED notTb

TbNext ==
    \/ Tb_ClearFields
    \/ Tb_SelectAll
    \/ Tb_ClearAll
    \/ Tb_Cancel
    \/ Tb_Update_NoSheets
    \/ Tb_Update_NoParams
    \/ Tb_Update
    \/ Tb_ConfirmNo
    \/ Tb_ConfirmYes
    \/ Tb_UpdateSheet
    \/ Tb_SheetFails
    \/ Tb_Summary

(***************************************************************************)
(* Coordinates.pushbutton/AcquireCoordinates_script.py                     *)
(*                                                                         *)
(* A location is abstract: of each host point the model keeps which of its *)
(* three coordinate parameters now hold the selected link's value.         *)
(***************************************************************************)
\* Most linked models in the list.
MaxLinks == 2

\* East/West, North/South and Elevation, in the order the script sets them.
CoordinateOrder == <<"x", "y", "z">>
Coordinates == Range(CoordinateOrder)

\* A linked model is listed when `sp_location or pbp_location`.
LinkedModelKinds ==
    {m \in [survey_point_location : BOOLEAN, project_base_point_location : BOOLEAN] :
        m.survey_point_location \/ m.project_base_point_location}

\* A host point: get_survey_point / get_project_base_point found one or
\* returned None; writable are its parameters that exist and are not read-only.
HostPoints ==
    {p \in [exists : BOOLEAN, writable : SUBSET Coordinates] : p.exists \/ p.writable = {}}

\* set_point_coordinates(point_element, location) without an exception: the
\* coordinates it sets, and the value it returns.
PointCoordinatesSet(point) == point.writable
set_point_coordinates(point) == point.writable # {}

\* The coordinates already set when a call inside set_point_coordinates
\* raises: those before the Set that raises, or none if get_Parameter raises.
WritableInOrder(point) ==
    LET IsWritable(c) == c \in point.writable
    IN  SelectSeq(CoordinateOrder, IsWritable)
SetBeforeRaise(point) ==
    {Range(SubSeq(WritableInOrder(point), 1, n)) :
        n \in 0..(IF point.writable = {} THEN 0 ELSE Len(WritableInOrder(point)) - 1)}

selected_link == linked_models[SelectedIndex + 1]

AcOff ==
    /\ ac_pc = "off"
    /\ linked_models = <<>>
    /\ SelectedIndex = -1
    /\ host_sp = [exists |-> FALSE, writable |-> {}]
    /\ host_pbp = [exists |-> FALSE, writable |-> {}]
    /\ sp_moved = {}
    /\ pbp_moved = {}
    /\ ac_success = TRUE
    /\ ac_alert = "none"
    /\ ac_txn = "none"
    /\ ac_result = FALSE

\* The window is open, LoadLinkedModels found at least one linked model
\* (btnAcquire is enabled) and the user may have selected one.
AcInit ==
    /\ ac_pc = "dialog"
    /\ linked_models \in UNION {[1..n -> LinkedModelKinds] : n \in 1..MaxLinks}
    /\ SelectedIndex \in -1..(Len(linked_models) - 1)
    /\ host_sp \in HostPoints
    /\ host_pbp \in HostPoints
    /\ sp_moved = {}
    /\ pbp_moved = {}
    /\ ac_success = TRUE
    /\ ac_alert = "none"
    /\ ac_txn = "none"
    /\ ac_result = FALSE

\* OnAcquire without a selection: alert, return.
OnAcquire_NoSelection ==
    /\ ac_pc = "dialog"
    /\ SelectedIndex < 0
    /\ ac_alert' = "Please select a linked model"
    /\ UNCHANGED <<ac_pc, linked_models, SelectedIndex, host_sp, host_pbp, sp_moved,
                   pbp_moved, ac_success, ac_txn, ac_result>>
    /\ UNCHANGED notAc

\* OnAcquire with a selection: the confirmation is asked.
OnAcquire ==
    /\ ac_pc = "dialog"
    /\ SelectedIndex >= 0
    /\ ac_alert' = "Confirm"
    /\ ac_pc' = "confirm"
    /\ UNCHANGED <<linked_models, SelectedIndex, host_sp, host_pbp, sp_moved, pbp_moved,
                   ac_success, ac_txn, ac_result>>
    /\ UNCHANGED notAc

\* The user answers No: return.
Ac_ConfirmNo ==
    /\ ac_pc = "confirm"
    /\ ac_alert' = "none"
    /\ ac_pc' = "dialog"
    /\ UNCHANGED <<linked_models, SelectedIndex, host_sp, host_pbp, sp_moved, pbp_moved,
                   ac_success, ac_txn, ac_result>>
    /\ UNCHANGED notAc

\* The user answers Yes: success = True and the transaction starts.
Ac_ConfirmYes ==
    /\ ac_pc = "confirm"
    /\ ac_success' = TRUE
    /\ ac_txn' = "open"
    /\ ac_alert' = "none"
    /\ ac_pc' = "survey"
    /\ UNCHANGED <<linked_models, SelectedIndex, host_sp, host_pbp, sp_moved, pbp_moved,
                   ac_result>>
    /\ UNCHANGED notAc

\* The Survey Point block: skipped unless the host has the point and the
\* link has its location; success = False if set_point_coordinates returns False.
Ac_SurveyPoint ==
    /\ ac_pc = "survey"
    /\ IF host_sp.exists /\ selected_link.survey_point_location
       THEN /\ sp_moved' = PointCoordinatesSet(host_sp)
            /\ ac_success' = (ac_success /\ set_point_coordinates(host_sp))
       ELSE UNCHANGED <<sp_moved, ac_success>>
    /\ ac_pc' = "base"
    /\ UNCHANGED <<linked_models, SelectedIndex, host_sp, host_pbp, pbp_moved, ac_alert,
                   ac_txn, ac_result>>
    /\ UNCHANGED notAc

\* The Survey Point block when a host call inside set_point_coordinates
\* raises: the function returns False.
Ac_SurveyPoint_Raises ==
    /\ ac_pc = "survey"
    /\ host_sp.exists /\ selected_link.survey_point_location
    /\ sp_moved' \in SetBeforeRaise(host_sp)
    /\ ac_success' = FALSE
    /\ ac_pc' = "base"
    /\ UNCHANGED <<linked_models, SelectedIndex, host_sp, host_pbp, pbp_moved, ac_alert,
                   ac_txn, ac_result>>
    /\ UNCHANGED notAc

\* The Project Base Point block.
Ac_BasePoint ==
    /\ ac_pc = "base"
    /\ IF host_pbp.exists /\ selected_link.project_base_point_location
       THEN /\ pbp_moved' = PointCoordinatesSet(host_pbp)
            /\ ac_success' = (ac_success /\ set_point_coordinates(host_pbp))
       ELSE UNCHANGED <<pbp_moved, ac_success>>
    /\ ac_pc' = "report"
    /\ UNCHANGED <<linked_models, SelectedIndex, host_sp, host_pbp, sp_moved, ac_alert,
                   ac_txn, ac_result>>
    /\ UNCHANGED notAc

\* The Project Base Point block when set_point_coordinates catches an exception.
Ac_BasePoint_Raises ==
    /\ ac_pc = "base"
    /\ host_pbp.exists /\ selected_link.project_base_point_location
    /\ pbp_moved' \in SetBeforeRaise(host_pbp)
    /\ ac_success' = FALSE
    /\ ac_pc' = "report"
    /\ UNCHANGED <<linked_models, SelectedIndex, host_sp, host_pbp, sp_moved, ac_alert,
                   ac_txn, ac_result>>
    /\ UNCHANGED notAc

\* The transaction commits; success: the "Coordinates acquired!" alert and
\* self.result = True.
Ac_ReportSuccess ==
    /\ ac_pc = "report"
    /\ ac_success
    /\ ac_txn' = "committed"
    /\ ac_alert' = "Coordinates acquired"
    /\ ac_result' = TRUE
    /\ ac_pc' = "done"
    /\ UNCHANGED <<linked_models, SelectedIndex, host_sp, host_pbp, sp_moved, pbp_moved,
                   ac_success>>
    /\ UNCHANGED notAc

\* The transaction commits; not success: the "Partial success" warning.
Ac_ReportPartial ==
    /\ ac_pc = "report"
    /\ ~ac_success
    /\ ac_txn' = "committed"
    /\ ac_alert' = "Partial success"
    /\ ac_pc' = "done"
    /\ UNCHANGED <<linked_models, SelectedIndex, host_sp, host_pbp, sp_moved, pbp_moved,
                   ac_success, ac_result>>
    /\ UNCHANGED notAc

AcNext ==
    \/ OnAcquire_NoSelection
    \/ OnAcquire
    \/ Ac_ConfirmNo
    \/ Ac_ConfirmYes
    \/ Ac_SurveyPoint
    \/ Ac_SurveyPoint_Raises
    \/ Ac_BasePoint
    \/ Ac_BasePoint_Raises
    \/ Ac_ReportSuccess
    \/ Ac_ReportPartial

(***************************************************************************)
(* Specifications: one per script                                          *)
(***************************************************************************)
InitWorkset == WsInit /\ RmOff /\ TfOff /\ SpOff /\ MkOff /\ GrOff /\ RotOff /\ CvOff /\ TbOff /\ AcOff
SpecWorkset == InitWorkset /\ [][WsNext]_vars
InitRev == RmInit /\ WsOff /\ TfOff /\ SpOff /\ MkOff /\ GrOff /\ RotOff /\ CvOff /\ TbOff /\ AcOff
SpecRev == InitRev /\ [][RmNext]_vars
InitTransfer == TfInit /\ WsOff /\ RmOff /\ SpOff /\ MkOff /\ GrOff /\ RotOff /\ CvOff /\ TbOff /\ AcOff
SpecTransfer == InitTransfer /\ [][TfNext]_vars
InitSplit == SpInit /\ WsOff /\ RmOff /\ TfOff /\ MkOff /\ GrOff /\ RotOff /\ CvOff /\ TbOff /\ AcOff
SpecSplit == InitSplit /\ [][SpNext]_vars
InitSort == MkInit /\ WsOff /\ RmOff /\ TfOff /\ SpOff /\ GrOff /\ RotOff /\ CvOff /\ TbOff /\ AcOff
SpecSort == InitSort /\ [][MkNext]_vars
InitGrid == GrInit /\ WsOff /\ RmOff /\ TfOff /\ SpOff /\ MkOff /\ RotOff /\ CvOff /\ TbOff /\ AcOff
SpecGrid == InitGrid /\ [][GrNext]_vars
InitRot == RotInit /\ WsOff /\ RmOff /\ TfOff /\ SpOff /\ MkOff /\ GrOff /\ CvOff /\ TbOff /\ AcOff
SpecRot == InitRot /\ [][RotNext]_vars
InitComments == CvInit /\ WsOff /\ RmOff /\ TfOff /\ SpOff /\ MkOff /\ GrOff /\ RotOff /\ TbOff /\ AcOff
SpecComments == InitComments /\ [][CvNext]_vars
InitTitleBlock == TbInit /\ WsOff /\ RmOff /\ TfOff /\ SpOff /\ MkOff /\ GrOff /\ RotOff /\ CvOff /\ AcOff
SpecTitleBlock == InitTitleBlock /\ [][TbNext]_vars
InitAcquire == AcInit /\ WsOff /\ RmOff /\ TfOff /\ SpOff /\ MkOff /\ GrOff /\ RotOff /\ CvOff /\ TbOff
SpecAcquire == InitAcquire /\ [][AcNext]_vars

(***************************************************************************)
(* Claims                                                                  *)
(***************************************************************************)
\* C1: a host-API exception raised for one item of a transaction loop is caught
\* for that item, the remaining items are still processed and a summary is shown
\* after the loop: a run that opened a transaction ends with every selected item
\* processed and with the summary printed.
C1_ItemFailureIsContained ==
    (ws_pc = "ended" /\ ws_txn # "none") =>
        /\ ws_i = Len(form_selected)
        /\ ws_output # <<>>

\* The sheets and revisions whose items are checked in the two lists.
CheckedSheets == {sheet_list[i] : i \in sheet_checked}
CheckedRevisions == {revision_list[i] : i \in revision_checked}

C10_RemoveOnlySelected ==
    (rm_op = "remove" /\ rm_pc \in {"transaction", "complete"}) =>
        \A s \in Sheets :
            /\ LET keep(r) == r \notin CheckedRevisions
                IN  SelectSeq(sheetRevs[s], keep) = SelectSeq(rm_before[s], keep)
            /\ Range(sheetRevs[s]) \subseteq Range(rm_before[s])
            /\ Range(rm_before[s]) \cap CheckedRevisions = {} => s \notin rm_written
            /\ s \notin CheckedSheets => s \notin rm_written /\ sheetRevs[s] = rm_before[s]

\* C10 witness: a removal run is over in which one sheet lost a checked
\* revision and kept an unchecked one, and another checked sheet was skipped.
C10_Witness ==
    /\ rm_op = "remove"
    /\ rm_pc = "complete"
    /\ skipped_count > 0
    /\ \E s \in rm_written : sheetRevs[s] # <<>> /\ sheetRevs[s] # rm_before[s]

\* C14: Apply Revisions adds a revision only if it is not already present:
\* the list written to a checked sheet is the sheet's existing list followed by
\* the checked revisions that were not in it (in the order of the revision
\* list), so the existing revisions are kept and no revision id appears twice.
C14_AddOnlyIfNotPresent ==
    (rm_op = "apply" /\ rm_pc \in {"transaction", "complete"}) =>
        \A s \in rm_written :
            LET old == rm_before[s]
                new == sheetRevs[s]
                missing == {i \in revision_checked : revision_list[i] \notin Range(old)}
            IN  /\ new = old \o PickIndices(revision_list, missing, 1)
                /\ \A i, j \in 1..Len(new) : i # j => new[i] # new[j]

\* C14 witness: an apply run is over in which a written sheet already carried
\* one of the checked revisions and got another one appended.
C14_Witness ==
    /\ rm_op = "apply"
    /\ rm_pc = "complete"
    /\ \E s \in rm_written :
           /\ Range(rm_before[s]) \cap CheckedRevisions # {}
           /\ Len(sheetRevs[s]) > Len(rm_before[s])

\* C3 as stated: no script defers a state update to a queued dispatcher
\* callback, so whenever the window waits for the next user event no
\* UpdateSelectedCount is pending.
C3_NoDeferredUpdate ==
    tf_pc = "dialog" => dispatcher_queue = 0

\* C3, amended: the scripts are single-threaded, but a list SelectionChanged
\* event defers its update: the handler only queues UpdateSelectedCount on the
\* dispatcher and leaves the count text and the Transfer button as they were;
\* they are written when the queued callback runs, from the selection of that
\* moment, so other user events can be handled in between.
C3_SelectionUpdateIsDeferred ==
    [][/\ dispatcher_queue' > dispatcher_queue =>
             /\ txtSelectedCount' = txtSelectedCount
             /\ btnTransfer_IsEnabled' = btnTransfer_IsEnabled
       /\ (dispatcher_queue' < dispatcher_queue /\ tf_pc' = tf_pc /\ ItemsSource' # <<>>) =>
             /\ txtSelectedCount' =
                    Cardinality({f \in Range(ItemsSource') : f \in IsSelected'})
             /\ btnTransfer_IsEnabled' =
                    (txtSelectedCount' > 0 /\ doc_from' # NoDoc /\ doc_to' # NoDoc)]_vars

\* C3 witness: the window waits for the next user event while a queued
\* UpdateSelectedCount is pending and the count shown is not the count of the
\* selected filters.
C3_Witness ==
    /\ tf_pc = "dialog"
    /\ dispatcher_queue > 0
    /\ ItemsSource # <<>>
    /\ txtSelectedCount # Cardinality({f \in Range(ItemsSource) : f \in IsSelected})

\* C8: while Copy-From and Copy-To are the same project the Transfer button is
\* disabled, in every state of the dialog.
C8_SameProjectDisablesTransfer ==
    (tf_pc = "dialog" /\ doc_from # NoDoc /\ doc_from = doc_to) => ~btnTransfer_IsEnabled

\* C9: with Override checked, when a transfer between two different projects
\* is over, no destination filter with a selected name is left deleted without
\* a committed copy of the source filter under that name.
C9_OverrideReplaces ==
    (tf_pc = "done" /\ chkOverride /\ doc_from # doc_to) =>
        \A e \in tf_before :
            (e.dup = 0 /\ e.name \in Range(selected_filters) /\ e \notin docFilters[doc_to]) =>
                \E r \in docFilters[doc_to] \ tf_before : r.name = e.name /\ r.dup = 0

\* The final elements cover the unit cell [c, c + 1] of the chain of lines.
ChainCovered(c) ==
    \E w \in all_new_walls :
        LET start == SumLengths(selection, w.line - 1)
            lo == start + (IF w.from < w.to THEN w.from ELSE w.to)
            hi == start + (IF w.from < w.to THEN w.to ELSE w.from)
        IN  lo <= c /\ c + 1 <= hi

\* C4: when splitting is enabled, every line got its element and the total
\* length exceeds the interval, the finished run leaves a gap of the joint-gap
\* width at every split position: measured along the chain of lines, no
\* element covers any part of the chain within half a gap of a split position.
C4_GapAtEverySplit ==
    (sp_pc = "done" /\ split_enabled /\ sp_failed = 0
        /\ SumLengths(selection, Len(selection)) > interval_ft) =>
        \A k \in 1..Len(split_positions) :
            \A c \in 0..(SumLengths(selection, Len(selection)) - 1) :
                (/\ split_positions[k] - joint_gap_ft \div 2 <= c
                 /\ c < split_positions[k] + joint_gap_ft \div 2) => ~ChainCovered(c)

\* Natural order on Mark texts, read off the texts themselves: the leading
\* text runs are compared case-insensitively, then the leading digit runs as
\* numbers, then the rest; a text that ends first comes first.
RECURSIVE NaturalLess(_, _)
NaturalLess(s, t) ==
    LET ns == RunLength(s, FALSE)
        nt == RunLength(t, FALSE)
        ts == Lower(SubSeq(s, 1, ns))
        tt == Lower(SubSeq(t, 1, nt))
        s1 == SubSeq(s, ns + 1, Len(s))
        t1 == SubSeq(t, nt + 1, Len(t))
        ds == RunLength(s1, TRUE)
        dt == RunLength(t1, TRUE)
    IN  IF ts # tt THEN TextLess(ts, tt)
        ELSE IF s1 = <<>> \/ t1 = <<>> THEN s1 = <<>> /\ t1 # <<>>
        ELSE IF ToInt(SubSeq(s1, 1, ds)) # ToInt(SubSeq(t1, 1, dt))
             THEN ToInt(SubSeq(s1, 1, ds)) < ToInt(SubSeq(t1, 1, dt))
        ELSE NaturalLess(SubSeq(s1, ds + 1, Len(s1)), SubSeq(t1, dt + 1, Len(t1)))

\* How often the text m occurs in the list s.
Occurrences(s, m) == Cardinality({k \in 1..Len(s) : s[k] = m})

IPP_2 == <<"I", "P", "P", "-", "2">>
IPP_10 == <<"I", "P", "P", "-", "1", "0">>

\* C5: the sort by Mark is a natural sort: the sort step leaves the same
\* elements in an order in which no element is naturally greater than a later
\* one (digit runs compared as numbers, text runs case-insensitively), and the
\* key of 'IPP-2' is less than the key of 'IPP-10'.
C5_NaturalSort ==
    [][(mk_pc = "collected" /\ mk_pc' # "collected") =>
          /\ Len(marked_elements') = Len(marked_elements)
          /\ \A m \in Range(marked_elements) \cup Range(marked_elements') :
                Occurrences(marked_elements', m) = Occurrences(marked_elements, m)
          /\ \A i \in 1..Len(marked_elements') : \A j \in 1..Len(marked_elements') :
                i < j => ~NaturalLess(marked_elements'[j], marked_elements'[i])
          /\ KeyLess(alphanum_key(IPP_2), alphanum_key(IPP_10))
          /\ ~KeyLess(alphanum_key(IPP_10), alphanum_key(IPP_2))]_vars

\* C5 witness: the sort has run and put the Mark "2" before "12" and "a"
\* before "B", where plain text order has them the other way round.
C5_Witness ==
    /\ mk_pc = "writing"
    /\ \/ marked_elements = << <<"2">>, <<"1", "2">> >>
       \/ marked_elements = << <<"a">>, <<"B">> >>

\* k as three decimal digits (k < 1000).
ThreeDigits(k) ==
    <<DecimalDigits[(k \div 100) + 1], DecimalDigits[((k \div 10) % 10) + 1],
      DecimalDigits[(k % 10) + 1]>>

\* C15: the elements the script updates get, in natural Mark order, the
\* comments prefix+001, prefix+002, ... without a gap: an element that is
\* skipped or whose Set raises does not consume a number.
C15_NumberingHasNoGaps ==
    mk_pc \in {"writing", "done"} =>
        LET IsWritten(c) == c # <<>>
            written == SelectSeq(mk_comments, IsWritten)
        IN  /\ \A k \in 1..Len(written) :
                   written[k] = mk_prefix \o ThreeDigits(k)
            /\ Len(written) = mk_updated
            /\ count = mk_updated + 1

\* C15 witness: the run is over, the first element in Mark order was skipped
\* and the second got the number 001.
C15_Witness ==
    /\ mk_pc = "done"
    /\ Len(mk_comments) >= 2
    /\ mk_comments[1] = <<>>
    /\ mk_comments[2] = <<"P", "-", "0", "0", "1">>

\* The number of the three lists the grid at position k of grids is in.
ListsHolding(k) ==
    (IF k \in Range(vertical_grids) THEN 1 ELSE 0)
        + (IF k \in Range(horizontal_grids) THEN 1 ELSE 0)
        + (IF k \in Range(inclined_grids) THEN 1 ELSE 0)

\* C6 as stated: when classify_grids_for_view returns, every grid passed to it
\* is in exactly one of the three lists.
C6_EveryGridInOneList ==
    gr_pc = "returned" => \A k \in 1..Len(grids) : ListsHolding(k) = 1

\* C6, amended: when classify_grids_for_view returns, every grid whose curve
\* has a Direction (a straight grid) is in exactly one of the three lists, once;
\* a grid whose curve has none (a curved grid) is in no list.
C6_StraightGridsInOneList ==
    gr_pc = "returned" =>
        /\ \A k \in 1..Len(grids) : ListsHolding(k) = (IF grids[k].kind = "Arc" THEN 0 ELSE 1)
        /\ Len(vertical_grids) + Len(horizontal_grids) + Len(inclined_grids)
               = Cardinality({k \in 1..Len(grids) : grids[k].kind # "Arc"})

\* C6 witness: the function has returned for a curved grid and an inclined
\* straight grid.
C6_Witness ==
    /\ gr_pc = "returned"
    /\ \E k \in 1..Len(grids) : grids[k].kind = "Arc"
    /\ inclined_grids # <<>>

\* C7: in Auto mode the angle CalculateRotationAngle returns lies between -180
\* and 180.
C7_AutoAngleNormalized ==
    (rot_pc = "returned" /\ rbAuto) => (-180 <= rot_result /\ rot_result <= 180)

\* C7 witness: Auto mode returned an angle whose raw difference was outside
\* the range.
C7_Witness ==
    /\ rot_pc = "returned"
    /\ rbAuto
    /\ rot_result # 0
    /\ Atan2Degrees(mark_x) - Atan2Degrees(assembly_x) < -180

\* The filtered elements that have a Mark, in natural Mark order.
ByMarkOrder == SortMarked(MarkedElements(filtered_elements), filtered_elements)

\* C11: in "Based on Mark Order" mode the k-th element in natural Mark order
\* gets the k-th consecutive number: its new comment is the prefix, "-" and
\* the number k in three digits.
C11_NumberedByMarkOrder ==
    (cmbMethod = "Based on Mark Order" /\ cv_pc \in {"confirm", "transaction"}) =>
        \A k \in 1..Len(ByMarkOrder) :
            new_comments[ByMarkOrder[k]] = Strip(txtMarkPrefix) \o <<"-">> \o ZFill(Str(k), 3)

\* Number of non-blank values in a CSV text: the fields between commas and
\* line ends that hold a character other than white space, counted by the
\* first such character of each field.
NonBlankValues(text) ==
    Cardinality({k \in 1..Len(text) :
        /\ text[k] \notin {",", "\n", " "}
        /\ \A j \in 1..(k - 1) :
               (\A m \in j..(k - 1) : text[m] \notin {",", "\n"}) => text[j] = " "})

\* C16: in Comma-Separated mode the transaction is started, and comments are
\* written, only when the number of non-blank values entered equals the number
\* of filtered elements; after a click that found a mismatch the validation
\* alert is up and no transaction has started.
C16_CsvCountMustMatch ==
    cmbMethod = "Comma-Separated" =>
        /\ (cv_txn # "none" \/ \E k \in 1..Len(Comments) : Comments[k].set)
               => NonBlankValues(txtCSV) = Len(filtered_elements)
        /\ NonBlankValues(txtCSV) # Len(filtered_elements)
               => /\ cv_pc \in {"dialog", "closed"}
                  /\ cv_txn = "none"
                  /\ cv_alert \in {"none", "Please enter values", "Value mismatch"}
        /\ cv_alert \in {"Please enter values", "Value mismatch"}
               => NonBlankValues(txtCSV) # Len(filtered_elements)

\* C16 witness: two values on two lines were applied to two elements, both
\* written, and the transaction committed.
C16_Witness ==
    /\ cmbMethod = "Comma-Separated"
    /\ cv_txn = "committed"
    /\ success = 2
    /\ \E k \in 1..Len(txtCSV) : txtCSV[k] = "\n"

\* The user has filled in a parameter field: a text box holds more than white
\* space, or a date was picked.
UserFilledAField ==
    tb_date_picked \/ \E f \in TextFields(tb_script) : Strip(tb_fields[f]) # <<>>

\* C12: a click on Update with sheets selected and no parameter field filled
\* in by the user shows "Please fill in at least one parameter", leaves the
\* dialog waiting and modifies no sheet.  (In the dialog, a step that puts up
\* an alert is a click on Update.)
C12_NoParameterNoUpdate ==
    [][(tb_pc = "dialog" /\ tb_selected # {} /\ ~UserFilledAField /\ tb_alert' # "none")
          => /\ tb_alert' = "Please fill in at least one parameter"
             /\ tb_pc' = "dialog"
             /\ tb_written' = tb_written]_vars

\* C13: the "Coordinates acquired!" alert is shown, and result set to True,
\* only if both the host Survey Point and the host Project Base Point were
\* moved to the selected link's locations; in every other case the
\* "Partial success" warning is shown.
C13_AcquiredOnlyIfBothMoved ==
    ac_pc = "done" =>
        IF sp_moved = Coordinates /\ pbp_moved = Coordinates
        THEN ac_alert \in {"Coordinates acquired", "Partial success"}
        ELSE ac_alert = "Partial success" /\ ~ac_result
=============================================================================
